---- MODULE Spec2Model ----
(***************************************************************************)
(* Verification model of the software 3D pipeline (basic-solid-modelling). *)
(*                                                                         *)
(* Numbers.  The program computes in IEEE doubles; the model computes in   *)
(* exact fixed point: every length, depth key and pixel coordinate is an   *)
(* integer number of steps, ratios are kept as numerator/denominator and   *)
(* compared by cross-multiplication.  Tolerances of the program are given  *)
(* in steps (DepthEps, DenomEps).  Array indices are 0-based as in the     *)
(* source; At(s, i) reads the 0-based element i of a sequence.             *)
(***************************************************************************)
EXTENDS Integers, Sequences, FiniteSets, TLC

VARIABLES
    call,   \* the operation under study and its arguments
    ret,    \* its result: [done |-> FALSE] before the call returns
    fb,     \* Framebuffer.colorBuffer.data: byte index -> 0..255
    app,    \* what main() holds: scene, lastTime, canvas, config, debug
    loop    \* the render callback: its position, its locals, the pending
            \* animation-frame requests

vars == <<call, ret, fb, app, loop>>

----------------------------------------------------------------------------
(* Generic helpers *)

At(s, i) == s[i + 1]

Abs(n) == IF n < 0 THEN -n ELSE n

Min2(a, b) == IF a < b THEN a ELSE b

Max2(a, b) == IF a > b THEN a ELSE b

\* optional values: T | null
Null == <<>>

Some(v) == <<v>>

IsNull(o) == Len(o) = 0

Val(o) == o[1]

Pending == [done |-> FALSE]

\* app and loop where no application is running
NoApplication == [scene |-> Null]

NoRenderLoop == [pc |-> "none"]

Returned(v) == [done |-> TRUE, val |-> v]

\* all sequences over S of length 0..n
SeqUpTo(S, n) == UNION {[1..k -> S] : k \in 0..n}

SetMax(S) == CHOOSE m \in S : \A k \in S : k <= m

Min3(a, b, c) == Min2(a, Min2(b, c))

Max3(a, b, c) == Max2(a, Max2(b, c))

\* a ratio n/d with d > 0
Ratio(n, d) == [n |-> n, d |-> d]

\* Screen coordinates are counted in half pixels: the real coordinate is x / 2,
\* so that the pixel centre px + 0.5 is the integer 2 * px + 1.
Floor2(x) == x \div 2

Ceil2(x) == -((-x) \div 2)

PixelCentre(p) == 2 * p + 1

----------------------------------------------------------------------------
(* math/vec3.ts *)

Vec3(x, y, z) == [x |-> x, y |-> y, z |-> z]

sub(a, b) == Vec3(a.x - b.x, a.y - b.y, a.z - b.z)

add(a, b) == Vec3(a.x + b.x, a.y + b.y, a.z + b.z)

dot(a, b) == a.x * b.x + a.y * b.y + a.z * b.z

cross(a, b) == Vec3(a.y * b.z - a.z * b.y,
                    a.z * b.x - a.x * b.z,
                    a.x * b.y - a.y * b.x)

lengthSq(a) == dot(a, a)

----------------------------------------------------------------------------
(* math/vec4.ts, math/mat4.ts *)

Vec4(x, y, z, w) == [x |-> x, y |-> y, z |-> z, w |-> w]

\* a Mat4 is the tuple of its 16 entries m0..m15, column-major
Mat4(m0, m1, m2, m3, m4, m5, m6, m7, m8, m9, m10, m11, m12, m13, m14, m15) ==
    <<m0, m1, m2, m3, m4, m5, m6, m7, m8, m9, m10, m11, m12, m13, m14, m15>>

identity == Mat4(1, 0, 0, 0,  0, 1, 0, 0,  0, 0, 1, 0,  0, 0, 0, 1)

\* entry (row r, column c) of the product a * b
multiplyEntry(a, b, r, c) ==
    At(a, r) * At(b, 4 * c) + At(a, r + 4) * At(b, 4 * c + 1)
        + At(a, r + 8) * At(b, 4 * c + 2) + At(a, r + 12) * At(b, 4 * c + 3)

multiply(a, b) ==
    Mat4(multiplyEntry(a, b, 0, 0), multiplyEntry(a, b, 1, 0),
         multiplyEntry(a, b, 2, 0), multiplyEntry(a, b, 3, 0),
         multiplyEntry(a, b, 0, 1), multiplyEntry(a, b, 1, 1),
         multiplyEntry(a, b, 2, 1), multiplyEntry(a, b, 3, 1),
         multiplyEntry(a, b, 0, 2), multiplyEntry(a, b, 1, 2),
         multiplyEntry(a, b, 2, 2), multiplyEntry(a, b, 3, 2),
         multiplyEntry(a, b, 0, 3), multiplyEntry(a, b, 1, 3),
         multiplyEntry(a, b, 2, 3), multiplyEntry(a, b, 3, 3))

transformVec4(a, v) ==
    Vec4(At(a, 0) * v.x + At(a, 4) * v.y + At(a, 8)  * v.z + At(a, 12) * v.w,
         At(a, 1) * v.x + At(a, 5) * v.y + At(a, 9)  * v.z + At(a, 13) * v.w,
         At(a, 2) * v.x + At(a, 6) * v.y + At(a, 10) * v.z + At(a, 14) * v.w,
         At(a, 3) * v.x + At(a, 7) * v.y + At(a, 11) * v.z + At(a, 15) * v.w)

translation(tx, ty, tz) ==
    Mat4(1, 0, 0, 0,  0, 1, 0, 0,  0, 0, 1, 0,  tx, ty, tz, 1)

scaling(sx, sy, sz) ==
    Mat4(sx, 0, 0, 0,  0, sy, 0, 0,  0, 0, sz, 0,  0, 0, 0, 1)

\* Angles are whole quarter turns q (q * 90 degrees), whose cosine and sine
\* are integers.
CosQ(q) == CASE q % 4 = 0 -> 1 [] q % 4 = 1 -> 0 [] q % 4 = 2 -> -1 [] OTHER -> 0

SinQ(q) == CASE q % 4 = 0 -> 0 [] q % 4 = 1 -> 1 [] q % 4 = 2 -> 0 [] OTHER -> -1

rotationY(q) ==
    Mat4(CosQ(q), 0, -SinQ(q), 0,  0, 1, 0, 0,  SinQ(q), 0, CosQ(q), 0,  0, 0, 0, 1)

----------------------------------------------------------------------------
(* core/Camera.ts *)

\* orientation.conjugate().toMat4() for the orientation Quat.fromEuler(yaw, 0, 0)
\* with yaw = q quarter turns: x = z = 0, 1 - 2yy = cos yaw, 2wy = sin yaw,
\* and the conjugate negates y.
conjugateToMat4(q) ==
    Mat4(CosQ(q), 0, SinQ(q), 0,  0, 1, 0, 0,  -SinQ(q), 0, CosQ(q), 0,  0, 0, 0, 1)

getViewMatrix(camera) ==
    LET rotInv == conjugateToMat4(camera.yaw)
        trans  == translation(-camera.position.x, -camera.position.y, -camera.position.z)
    IN  multiply(rotInv, trans)

----------------------------------------------------------------------------
(* math/frustum.ts *)

\* L > r * sqrt(s) for integers L, r and s > 0, decided exactly
GtTimesSqrt(L, r, s) ==
    IF r >= 0 THEN L > 0 /\ L * L > r * r * s
    ELSE L >= 0 \/ L * L < r * r * s

\* mutant: the radius is left out of the near-plane test
entirelyInFrontOfNear_noRadius(cz, worldRadius, near) == cz > -near

entirelyInFrontOfNear(cz, worldRadius, near) == cz - worldRadius > -near

\* mutant: the far plane taken on the +Z side
entirelyBeyondFar_plusZ(cz, worldRadius, far) == cz - worldRadius > far

entirelyBeyondFar(cz, worldRadius, far) == cz + worldRadius < -far

\* One side plane: c + a * cz > worldRadius * Math.hypot(1, a), for the
\* slope a = a.n / a.d; both sides are multiplied by a.d > 0.
outsideSidePlane(c, cz, a, worldRadius) ==
    GtTimesSqrt(c * a.d + a.n * cz, worldRadius, a.d * a.d + a.n * a.n)

\* fovYRad enters only through tan(fovYRad / 2), given as the ratio tanHalfFovY
isSphereInFrustum(worldCenter, worldRadius, viewMatrix, tanHalfFovY, aspect, near, far) ==
    LET v  == transformVec4(viewMatrix, Vec4(worldCenter.x, worldCenter.y, worldCenter.z, 1))
        cx == v.x
        cy == v.y
        cz == v.z
        a  == Ratio(aspect.n * tanHalfFovY.n, aspect.d * tanHalfFovY.d)
        b  == tanHalfFovY
    IN  IF entirelyInFrontOfNear(cz, worldRadius, near) THEN FALSE
        ELSE IF entirelyBeyondFar(cz, worldRadius, far) THEN FALSE
        ELSE IF outsideSidePlane(cx, cz, a, worldRadius) THEN FALSE
        ELSE IF outsideSidePlane(-cx, cz, a, worldRadius) THEN FALSE
        ELSE IF outsideSidePlane(cy, cz, b, worldRadius) THEN FALSE
        ELSE IF outsideSidePlane(-cy, cz, b, worldRadius) THEN FALSE
        ELSE TRUE

----------------------------------------------------------------------------
(* core/Framebuffer.ts *)

\* new Framebuffer(width, height): ImageData starts as transparent black
Framebuffer(width, height) ==
    [width |-> width, height |-> height,
     data |-> [i \in 1..(width * height * 4) |-> 0]]

NoFramebuffer == [width |-> 0, height |-> 0, data |-> <<>>]

\* a store into the Uint8ClampedArray clamps the value to 0..255
ToUint8Clamp(v) == IF v < 0 THEN 0 ELSE IF v > 255 THEN 255 ELSE v

\* data[i] = r; data[i+1] = g; data[i+2] = b; data[i+3] = 255 for the 0-based
\* index i; a store outside the array is ignored
StorePixel(data, i, r, g, b) ==
    [k \in DOMAIN data |->
        CASE k - 1 = i     -> ToUint8Clamp(r)
          [] k - 1 = i + 1 -> ToUint8Clamp(g)
          [] k - 1 = i + 2 -> ToUint8Clamp(b)
          [] k - 1 = i + 3 -> 255
          [] OTHER         -> data[k]]

\* A colour string "#rrggbb" or "#rgb" is the tuple of its hex digits
\* (each 0..15) after the leading "#".
parseColor(color) ==
    IF Len(color) = 6
    THEN <<16 * color[1] + color[2], 16 * color[3] + color[4], 16 * color[5] + color[6]>>
    ELSE IF Len(color) = 3
    THEN <<16 * color[1] + color[1], 16 * color[2] + color[2], 16 * color[3] + color[3]>>
    ELSE <<0, 0, 0>>

clear(framebuffer, color) ==
    LET rgb == parseColor(color)
    IN  [framebuffer EXCEPT !.data =
            [i \in DOMAIN framebuffer.data |->
                IF (i - 1) % 4 = 3 THEN 255 ELSE rgb[((i - 1) % 4) + 1]]]

\* mutant: off-by-one bounds test (ix > width, iy > height)
putPixel_offByOne(framebuffer, x, y, r, g, b) ==
    LET ix == Floor2(x)
        iy == Floor2(y)
    IN  IF ix < 0 \/ ix > framebuffer.width \/ iy < 0 \/ iy > framebuffer.height
        THEN framebuffer
        ELSE LET i == (iy * framebuffer.width + ix) * 4
             IN  [framebuffer EXCEPT !.data = StorePixel(@, i, r, g, b)]

putPixel(framebuffer, x, y, r, g, b) ==
    LET ix == Floor2(x)
        iy == Floor2(y)
    IN  IF ix < 0 \/ ix >= framebuffer.width \/ iy < 0 \/ iy >= framebuffer.height
        THEN framebuffer
        ELSE LET i == (iy * framebuffer.width + ix) * 4
             IN  [framebuffer EXCEPT !.data = StorePixel(@, i, r, g, b)]

\* putPixelUnsafe(px, py, r, g, b): the write without a bounds test; this is
\* the data index it stores at
putPixelUnsafeIndex(framebuffer, px, py) == (py * framebuffer.width + px) * 4

----------------------------------------------------------------------------
(* core/rasterizer.ts *)

parseColorHex(color) ==
    IF Len(color) = 6
    THEN <<16 * color[1] + color[2], 16 * color[3] + color[4], 16 * color[5] + color[6]>>
    ELSE IF Len(color) = 3
    THEN <<16 * color[1] + color[1], 16 * color[2] + color[2], 16 * color[3] + color[3]>>
    ELSE <<0, 0, 0>>

\* mutant: maxX and maxY are not limited to the framebuffer
BoundingBox_unclampedMax(framebuffer, a, b, c) ==
    [minX |-> Max2(0, Floor2(Min3(a.x, b.x, c.x))),
     maxX |-> Ceil2(Max3(a.x, b.x, c.x)),
     minY |-> Max2(0, Floor2(Min3(a.y, b.y, c.y))),
     maxY |-> Ceil2(Max3(a.y, b.y, c.y))]

\* minX, maxX, minY, maxY of the scan loops
BoundingBox(framebuffer, a, b, c) ==
    [minX |-> Max2(0, Floor2(Min3(a.x, b.x, c.x))),
     maxX |-> Min2(framebuffer.width - 1, Ceil2(Max3(a.x, b.x, c.x))),
     minY |-> Max2(0, Floor2(Min3(a.y, b.y, c.y))),
     maxY |-> Min2(framebuffer.height - 1, Ceil2(Max3(a.y, b.y, c.y)))]

\* denom = abx * acy - aby * acx, in steps of 1/4 square pixel
edgeDenom(a, b, c) == (b.x - a.x) * (c.y - a.y) - (b.y - a.y) * (c.x - a.x)

\* 1e-10 in steps of 1/4 square pixel, rounded up: the smallest non-zero
\* determinant of the model is 1 step
DenomEps == 1

\* mutant: no degenerate triangle is skipped
isDegenerate_never(denom) == FALSE

isDegenerate(denom) == Abs(denom) < DenomEps

\* u and v at the centre of pixel (px, py), as the numerators u, v over the
\* common denominator d = |denom| > 0 (numerators and denominator are
\* multiplied by the sign of denom)
Barycentric(a, b, c, px, py) ==
    LET abx == b.x - a.x
        aby == b.y - a.y
        acx == c.x - a.x
        acy == c.y - a.y
        denom == abx * acy - aby * acx
        pax == PixelCentre(px) - a.x
        pay == PixelCentre(py) - a.y
        s == IF denom < 0 THEN -1 ELSE 1
    IN  [u |-> s * (pax * acy - pay * acx),
         v |-> s * (abx * pay - aby * pax),
         d |-> s * denom]

\* mutant: edges exclusive
insideTriangle_strict(bc) == bc.u > 0 /\ bc.v > 0 /\ bc.u + bc.v < bc.d

\* u >= 0 && v >= 0 && u + v <= 1
insideTriangle(bc) == bc.u >= 0 /\ bc.v >= 0 /\ bc.u + bc.v <= bc.d

\* Math.round(Math.max(0, Math.min(255, q))) for the ratio q
RoundClamp255(q) ==
    IF q.n <= 0 THEN 0
    ELSE IF q.n >= 255 * q.d THEN 255
    ELSE (2 * q.n + q.d) \div (2 * q.d)

\* mutant: the perspective sums are not divided by the interpolated invW
InterpWeights_unnormalised(a, b, c, bc) ==
    LET w == bc.d - bc.u - bc.v
    IN  IF /\ ~IsNull(a.invW) /\ ~IsNull(b.invW) /\ ~IsNull(c.invW)
           /\ Val(a.invW).n > 0 /\ Val(b.invW).n > 0 /\ Val(c.invW).n > 0
        THEN LET ia == Val(a.invW)
                 ib == Val(b.invW)
                 ic == Val(c.invW)
             IN  [persp |-> TRUE,
                  ka |-> w * ia.n * ib.d * ic.d,
                  kb |-> bc.u * ib.n * ia.d * ic.d,
                  kc |-> bc.v * ic.n * ia.d * ib.d,
                  den |-> bc.d * ia.d * ib.d * ic.d]
        ELSE [persp |-> FALSE, ka |-> w, kb |-> bc.u, kc |-> bc.v, den |-> bc.d]

\* mutant: linear interpolation also when every invW is present and positive
InterpWeights_alwaysLinear(a, b, c, bc) ==
    [persp |-> FALSE, ka |-> bc.d - bc.u - bc.v, kb |-> bc.u, kc |-> bc.v, den |-> bc.d]

\* mutant: perspective-correct whenever the three invW are present, whatever
\* their signs
InterpWeights_noSignGuard(a, b, c, bc) ==
    LET w == bc.d - bc.u - bc.v
    IN  IF ~IsNull(a.invW) /\ ~IsNull(b.invW) /\ ~IsNull(c.invW)
        THEN LET ia == Val(a.invW)
                 ib == Val(b.invW)
                 ic == Val(c.invW)
             IN  [persp |-> TRUE,
                  ka |-> w * ia.n * ib.d * ic.d,
                  kb |-> bc.u * ib.n * ia.d * ic.d,
                  kc |-> bc.v * ic.n * ia.d * ib.d,
                  den |-> w * ia.n * ib.d * ic.d + bc.u * ib.n * ia.d * ic.d
                          + bc.v * ic.n * ia.d * ib.d]
        ELSE [persp |-> FALSE, ka |-> w, kb |-> bc.u, kc |-> bc.v, den |-> bc.d]

\* The weights the three vertices get at a pixel, up to the common positive
\* factor that cancels in every quotient: w * a.invW, u * b.invW, v * c.invW
\* when perspective-correct, else w, u, v.  persp tells which branch ran.
InterpWeights(a, b, c, bc) ==
    LET w == bc.d - bc.u - bc.v
        usePerspective == ~IsNull(a.invW) /\ ~IsNull(b.invW) /\ ~IsNull(c.invW)
    IN  IF usePerspective /\ Val(a.invW).n > 0 /\ Val(b.invW).n > 0 /\ Val(c.invW).n > 0
        THEN LET ia == Val(a.invW)
                 ib == Val(b.invW)
                 ic == Val(c.invW)
             IN  [persp |-> TRUE,
                  ka |-> w * ia.n * ib.d * ic.d,
                  kb |-> bc.u * ib.n * ia.d * ic.d,
                  kc |-> bc.v * ic.n * ia.d * ib.d,
                  den |-> w * ia.n * ib.d * ic.d + bc.u * ib.n * ia.d * ic.d
                          + bc.v * ic.n * ia.d * ib.d]
        ELSE [persp |-> FALSE, ka |-> w, kb |-> bc.u, kc |-> bc.v, den |-> bc.d]

\* an interpolated attribute as a ratio
Interp(k, xa, xb, xc) == Ratio(k.ka * xa + k.kb * xb + k.kc * xc, k.den)

\* the colour rasterizeTriangle writes at pixel (px, py), or Null
FlatPixel(a, b, c, color, px, py) ==
    IF insideTriangle(Barycentric(a, b, c, px, py))
    THEN Some(parseColorHex(color))
    ELSE Null

\* the colour rasterizeTriangleGouraud writes at pixel (px, py), or Null
\* the body of the scan loops of rasterizeTriangleGouraud for the u, v of
\* a pixel (bc) and the weights k they give
GouraudShade(a, b, c, bc, k) ==
    IF ~insideTriangle(bc) THEN Null
    ELSE IF k.persp /\ k.den <= 0 THEN Null
    ELSE Some(<<RoundClamp255(Interp(k, a.r, b.r, c.r)),
                RoundClamp255(Interp(k, a.g, b.g, c.g)),
                RoundClamp255(Interp(k, a.b, b.b, c.b))>>)

GouraudAt(a, b, c, bc) == GouraudShade(a, b, c, bc, InterpWeights(a, b, c, bc))

GouraudPixel(a, b, c, px, py) == GouraudAt(a, b, c, Barycentric(a, b, c, px, py))

\* u % 1 for a ratio u: the remainder has the sign of u
remainderOne(u) ==
    Ratio(IF u.n >= 0 THEN u.n % u.d ELSE -((-u.n) % u.d), u.d)

\* mutant: u % 1 alone, which is negative for a negative u
wrapUnit_noAdd(u) == remainderOne(u)

\* ((u % 1) + 1) % 1
wrapUnit(u) ==
    LET once == remainderOne(u)
    IN  remainderOne(Ratio(once.n + once.d, once.d))

\* Math.floor(q) for a ratio q
FloorRatio(q) == q.n \div q.d

\* the texel (x, y) that sampleTexture reads for the ratios u and v
texelIndex(texture, u, v) ==
    LET w  == texture.width
        h  == texture.height
        uu == wrapUnit(u)
        vv == wrapUnit(v)
    IN  [x |-> Min2(w - 1, Max2(0, FloorRatio(Ratio(uu.n * w, uu.d)))),
         y |-> Min2(h - 1, Max2(0, FloorRatio(Ratio(vv.n * h, vv.d))))]

sampleTexture(texture, u, v) ==
    LET t == texelIndex(texture, u, v)
        i == (t.y * texture.width + t.x) * 4
    IN  <<At(texture.data, i), At(texture.data, i + 1), At(texture.data, i + 2)>>

\* an interpolated texture coordinate (the vertex values are ratios)
InterpUV(k, ua, ub, uc) ==
    Ratio(k.ka * ua.n * ub.d * uc.d + k.kb * ub.n * ua.d * uc.d + k.kc * uc.n * ua.d * ub.d,
          k.den * ua.d * ub.d * uc.d)

\* the colour rasterizeTriangleGouraudTextured writes at pixel (px, py), or Null
\* Math.round(clamp(tR * r / 255)) and the same for g and b, for the texel t
modulate(t, r, g, blue) ==
    <<RoundClamp255(Ratio(t[1] * r.n, 255 * r.d)),
      RoundClamp255(Ratio(t[2] * g.n, 255 * g.d)),
      RoundClamp255(Ratio(t[3] * blue.n, 255 * blue.d))>>

\* the body of the scan loops of rasterizeTriangleGouraudTextured for the
\* u, v of a pixel (bc) and the weights k they give
TexturedShade(a, b, c, texture, bc, k) ==
    LET hasUV == /\ ~IsNull(a.u) /\ ~IsNull(a.v) /\ ~IsNull(b.u) /\ ~IsNull(b.v)
                 /\ ~IsNull(c.u) /\ ~IsNull(c.v)
        uTex == IF hasUV THEN InterpUV(k, Val(a.u), Val(b.u), Val(c.u)) ELSE Ratio(0, 1)
        vTex == IF hasUV THEN InterpUV(k, Val(a.v), Val(b.v), Val(c.v)) ELSE Ratio(0, 1)
    IN  IF ~insideTriangle(bc) THEN Null
        ELSE IF k.persp /\ k.den <= 0 THEN Null
        ELSE Some(modulate(sampleTexture(texture, uTex, vTex),
                           Interp(k, a.r, b.r, c.r), Interp(k, a.g, b.g, c.g),
                           Interp(k, a.b, b.b, c.b)))

TexturedAt(a, b, c, texture, bc) ==
    TexturedShade(a, b, c, texture, bc, InterpWeights(a, b, c, bc))

TexturedPixel(a, b, c, texture, px, py) ==
    TexturedAt(a, b, c, texture, Barycentric(a, b, c, px, py))

\* The scan loops, written three times in the source with the same bounds and
\* the same tests: for py in minY..maxY, for px in minX..maxX, store the
\* colour Pixel(px, py) through putPixelUnsafe when it is not Null.  For the
\* pixel with data index 4 * q the stores that land on it come
\* from the iterations (q - py * width, py); the last one in loop order (the
\* greatest py) stays.
\* shade tells which rasterizer runs the loops and carries its extra argument.
ShadedPixel(shade, a, b, c, px, py) ==
    CASE shade.kind = "flat"    -> FlatPixel(a, b, c, shade.color, px, py)
      [] shade.kind = "gouraud" -> GouraudPixel(a, b, c, px, py)
      [] OTHER                  -> TexturedPixel(a, b, c, shade.texture, px, py)

\* the rows py of the scan whose store at px = q - py * width lands on the
\* pixel with data index 4 * q
storingRows(framebuffer, a, b, c, shade, bb, q) ==
    {py \in bb.minY..bb.maxY :
        LET px == q - py * framebuffer.width
        IN  /\ px \in bb.minX..bb.maxX
            /\ putPixelUnsafeIndex(framebuffer, px, py) = 4 * q
            /\ ~IsNull(ShadedPixel(shade, a, b, c, px, py))}

\* the colour of the last of the stores of the rows
lastOf(framebuffer, a, b, c, shade, q, rows) ==
    IF rows = {} THEN Null
    ELSE ShadedPixel(shade, a, b, c, q - SetMax(rows) * framebuffer.width, SetMax(rows))

\* the colour that stays at the pixel with data index 4 * q, or Null
lastStore(framebuffer, a, b, c, shade, bb, q) ==
    lastOf(framebuffer, a, b, c, shade, q,
           storingRows(framebuffer, a, b, c, shade, bb, q))

\* byte j of a pixel that held old, after the store s (Null for no store)
storedByte(old, j, s) ==
    IF IsNull(s) THEN old ELSE IF j = 3 THEN 255 ELSE ToUint8Clamp(Val(s)[j + 1])

\* the framebuffer after the stores; stored[q + 1] belongs to data index 4 * q
writeStores(framebuffer, stored) ==
    [framebuffer EXCEPT !.data =
        [i \in DOMAIN framebuffer.data |->
            storedByte(framebuffer.data[i], (i - 1) % 4, stored[((i - 1) \div 4) + 1])]]

scanBox(framebuffer, a, b, c, shade, bb) ==
    writeStores(framebuffer,
        <<>> \o [n \in 1..(Len(framebuffer.data) \div 4) |->
                    lastStore(framebuffer, a, b, c, shade, bb, n - 1)])

ScanConvert(framebuffer, a, b, c, shade) ==
    IF isDegenerate(edgeDenom(a, b, c)) THEN framebuffer
    ELSE scanBox(framebuffer, a, b, c, shade, BoundingBox(framebuffer, a, b, c))

\* the coordinates <<px, py>> putPixelUnsafe is called with by the scan loops
storesIn(a, b, c, shade, bb) ==
    {s \in (bb.minX..bb.maxX) \X (bb.minY..bb.maxY) :
        ~IsNull(ShadedPixel(shade, a, b, c, s[1], s[2]))}

ScanStores(framebuffer, a, b, c, shade) ==
    IF isDegenerate(edgeDenom(a, b, c)) THEN {}
    ELSE storesIn(a, b, c, shade, BoundingBox(framebuffer, a, b, c))

rasterizeTriangle(framebuffer, a, b, c, color) ==
    ScanConvert(framebuffer, a, b, c, [kind |-> "flat", color |-> color])

rasterizeTriangleGouraud(framebuffer, a, b, c) ==
    ScanConvert(framebuffer, a, b, c, [kind |-> "gouraud"])

rasterizeTriangleGouraudTextured(framebuffer, a, b, c, texture) ==
    ScanConvert(framebuffer, a, b, c, [kind |-> "textured", texture |-> texture])

----------------------------------------------------------------------------
(* core/renderHelpers.ts: face normal and back-face test *)

\* polygonNormal returns n.normalize(), i.e. n scaled by 1/len with len > 0.
\* The model keeps the direction n itself (integer): the back-face test is a
\* sign test of a dot product, which the positive factor 1/len does not
\* change, and the lighting normalizes the normal it is given.  len === 0
\* holds exactly when n is the zero vector.
polygonNormal(vertexIndices, cameraSpaceVertices) ==
    IF Len(vertexIndices) < 3 THEN Null
    ELSE LET v0 == At(cameraSpaceVertices, At(vertexIndices, 0))
             v1 == At(cameraSpaceVertices, At(vertexIndices, 1))
             v2 == At(cameraSpaceVertices, At(vertexIndices, 2))
             e1 == sub(v1, v0)
             e2 == sub(v2, v0)
             n  == cross(e1, e2)
         IN  IF lengthSq(n) = 0 THEN Null ELSE Some(n)

\* mutant: strict test dp > 0
isBackFacing_strict(vertexIndices, cameraSpaceVertices, normal) ==
    IF IsNull(normal) \/ Len(vertexIndices) < 3 THEN FALSE
    ELSE LET v0 == At(cameraSpaceVertices, At(vertexIndices, 0))
             n  == Val(normal)
             dp == v0.x * n.x + v0.y * n.y + v0.z * n.z
         IN  dp > 0

isBackFacing(vertexIndices, cameraSpaceVertices, normal) ==
    IF IsNull(normal) \/ Len(vertexIndices) < 3 THEN FALSE
    ELSE LET v0 == At(cameraSpaceVertices, At(vertexIndices, 0))
             n  == Val(normal)
             dp == v0.x * n.x + v0.y * n.y + v0.z * n.z
         IN  dp >= 0

----------------------------------------------------------------------------
(* core/renderHelpers.ts: Painter's sort *)

\* 1e-9 in depth-key steps (one step = 5e-10)
DepthEps == 2

\* mutant: no tolerance / tie-break, plain a.depth - b.depth
compareBatches_noTie(a, b) == a.depth - b.depth

\* the comparator passed to batches.sort
compareBatches(a, b) ==
    LET d == a.depth - b.depth
    IN  IF Abs(d) < DepthEps THEN a.batchIndex - b.batchIndex ELSE d

\* Array.prototype.sort on a short array (V8: binary insertion sort, stable):
\* the position of pivot in the sorted prefix s[1..hi-1], searched in [lo, hi)
RECURSIVE BinarySearch(_, _, _, _)
BinarySearch(s, pivot, lo, hi) ==
    IF lo >= hi THEN lo
    ELSE LET mid == lo + ((hi - lo) \div 2)
         IN  IF compareBatches(pivot, s[mid]) < 0
             THEN BinarySearch(s, pivot, lo, mid)
             ELSE BinarySearch(s, pivot, mid + 1, hi)

InsertAt(s, k, e) ==
    [i \in 1..(Len(s) + 1) |-> IF i < k THEN s[i] ELSE IF i = k THEN e ELSE s[i - 1]]

RECURSIVE ArraySort(_, _)
ArraySort(s, n) ==
    \* s with its first n elements sorted, the rest appended in order
    IF n = 0 THEN <<>>
    ELSE LET prefix == ArraySort(s, n - 1)
         IN  InsertAt(prefix, BinarySearch(prefix, s[n], 1, n), s[n])

sortBatches(batches) == ArraySort(batches, Len(batches))

----------------------------------------------------------------------------
(* math/mat4.ts: the remaining rotations and the perspective matrix *)

rotationX(q) ==
    Mat4(1, 0, 0, 0,  0, CosQ(q), SinQ(q), 0,  0, -SinQ(q), CosQ(q), 0,  0, 0, 0, 1)

rotationZ(q) ==
    Mat4(CosQ(q), SinQ(q), 0, 0,  -SinQ(q), CosQ(q), 0, 0,  0, 0, 1, 0,  0, 0, 0, 1)

\* Mat4.perspective has the entries f / aspect, f, (far + near) * rangeInv,
\* -1 and 2 * far * near * rangeInv, with f = 1 / tan(fovY / 2) and
\* rangeInv = 1 / (near - far).  For tan(fovY / 2) = t.n / t.d and
\* aspect = a.n / a.d their common denominator is perspectiveScale > 0; the
\* model keeps the matrix multiplied by it, so that its entries are integers.
\* A clip-space vector is then perspectiveScale times the program's.
perspectiveScale(tanHalfFovY, aspect, near, far) ==
    tanHalfFovY.n * aspect.n * (far - near)

perspective(tanHalfFovY, aspect, near, far) ==
    LET t == tanHalfFovY
        a == aspect
    IN  Mat4(t.d * a.d * (far - near), 0, 0, 0,
             0, t.d * a.n * (far - near), 0, 0,
             0, 0, -(far + near) * t.n * a.n, -perspectiveScale(t, a, near, far),
             0, 0, -(2 * far * near) * t.n * a.n, 0)

transpose(a) ==
    Mat4(At(a, 0), At(a, 4), At(a, 8),  At(a, 12),
         At(a, 1), At(a, 5), At(a, 9),  At(a, 13),
         At(a, 2), At(a, 6), At(a, 10), At(a, 14),
         At(a, 3), At(a, 7), At(a, 11), At(a, 15))

\* s0..s5 and c0..c5 of Mat4.inverse: the 2 x 2 minors of the first two and of
\* the last two columns
minorsS(a) ==
    [s0 |-> At(a, 0) * At(a, 5) - At(a, 1) * At(a, 4),
     s1 |-> At(a, 0) * At(a, 6) - At(a, 2) * At(a, 4),
     s2 |-> At(a, 0) * At(a, 7) - At(a, 3) * At(a, 4),
     s3 |-> At(a, 1) * At(a, 6) - At(a, 2) * At(a, 5),
     s4 |-> At(a, 1) * At(a, 7) - At(a, 3) * At(a, 5),
     s5 |-> At(a, 2) * At(a, 7) - At(a, 3) * At(a, 6)]

minorsC(a) ==
    [c5 |-> At(a, 10) * At(a, 15) - At(a, 11) * At(a, 14),
     c4 |-> At(a, 9) * At(a, 15) - At(a, 11) * At(a, 13),
     c3 |-> At(a, 9) * At(a, 14) - At(a, 10) * At(a, 13),
     c2 |-> At(a, 8) * At(a, 15) - At(a, 11) * At(a, 12),
     c1 |-> At(a, 8) * At(a, 14) - At(a, 10) * At(a, 12),
     c0 |-> At(a, 8) * At(a, 13) - At(a, 9) * At(a, 12)]

determinant(s, c) ==
    s.s0 * c.c5 - s.s1 * c.c4 + s.s2 * c.c3 + s.s3 * c.c2 - s.s4 * c.c1 + s.s5 * c.c0

\* the 16 entries of the inverse before they are multiplied by invDet
inverseEntries(a, s, c) ==
    Mat4(At(a, 5) * c.c5 - At(a, 6) * c.c4 + At(a, 7) * c.c3,
         -At(a, 1) * c.c5 + At(a, 2) * c.c4 - At(a, 3) * c.c3,
         At(a, 13) * s.s5 - At(a, 14) * s.s4 + At(a, 15) * s.s3,
         -At(a, 9) * s.s5 + At(a, 10) * s.s4 - At(a, 11) * s.s3,
         -At(a, 4) * c.c5 + At(a, 6) * c.c2 - At(a, 7) * c.c1,
         At(a, 0) * c.c5 - At(a, 2) * c.c2 + At(a, 3) * c.c1,
         -At(a, 12) * s.s5 + At(a, 14) * s.s2 - At(a, 15) * s.s1,
         At(a, 8) * s.s5 - At(a, 10) * s.s2 + At(a, 11) * s.s1,
         At(a, 4) * c.c4 - At(a, 5) * c.c2 + At(a, 7) * c.c0,
         -At(a, 0) * c.c4 + At(a, 1) * c.c2 - At(a, 3) * c.c0,
         At(a, 12) * s.s4 - At(a, 13) * s.s2 + At(a, 15) * s.s0,
         -At(a, 8) * s.s4 + At(a, 9) * s.s2 - At(a, 11) * s.s0,
         -At(a, 4) * c.c3 + At(a, 5) * c.c1 - At(a, 6) * c.c0,
         At(a, 0) * c.c3 - At(a, 1) * c.c1 + At(a, 2) * c.c0,
         -At(a, 12) * s.s3 + At(a, 13) * s.s1 - At(a, 14) * s.s0,
         At(a, 8) * s.s3 - At(a, 9) * s.s1 + At(a, 10) * s.s0)

\* The inverse of a matrix of whole entries is kept as the whole matrix num
\* and the determinant det: the program's inverse is num / det.  A whole
\* determinant is below the program's 1e-10 exactly when it is 0.
inverseOf(a, det, num) == IF det = 0 THEN Null ELSE Some([num |-> num, det |-> det])

inverse(a) ==
    inverseOf(a, determinant(minorsS(a), minorsC(a)),
              inverseEntries(a, minorsS(a), minorsC(a)))

normalMatrixOf(inv) ==
    IF IsNull(inv) THEN Null
    ELSE Some([num |-> transpose(Val(inv).num), det |-> Val(inv).det])

normalMatrix(a) == normalMatrixOf(inverse(a))

----------------------------------------------------------------------------
(* core/Camera.ts, core/Object3D.ts, core/Mesh.ts *)

getProjectionMatrix(camera, aspect) ==
    perspective(camera.tanHalfFovY, aspect, camera.near, camera.far)

\* rotation holds the three Euler angles in quarter turns
getModelMatrix(object) ==
    LET T  == translation(object.position.x, object.position.y, object.position.z)
        Rx == rotationX(object.rotation.x)
        Ry == rotationY(object.rotation.y)
        Rz == rotationZ(object.rotation.z)
        R  == multiply(multiply(Rx, Ry), Rz)
        S  == scaling(object.scale.x, object.scale.y, object.scale.z)
    IN  multiply(multiply(T, R), S)

\* Math.sqrt(maxSq); the meshes of the model have a farthest vertex at an
\* integer distance, so the root is exact
computeBoundingRadius(vertices) ==
    LET maxSq == SetMax({0} \cup {lengthSq(vertices[i]) : i \in 1..Len(vertices)})
    IN  CHOOSE r \in 0..maxSq : r * r = maxSq

\* new Mesh(vertices, polygons): no vertex normals, no uvs, no material
Mesh(vertices, polygons) ==
    [vertices |-> vertices, polygons |-> polygons,
     boundingRadius |-> computeBoundingRadius(vertices),
     vertexNormals |-> <<>>, uvs |-> <<>>, material |-> Null]

----------------------------------------------------------------------------
(* math/projection.ts *)

RECURSIVE GCD(_, _)
GCD(m, n) == IF n = 0 THEN m ELSE GCD(n, m % n)

\* the ratio n / d, d > 0, in lowest terms
Lowest(n, d) == Ratio(n \div GCD(Abs(n), d), d \div GCD(Abs(n), d))

\* a quotient n / d with d # 0 as a ratio with a positive denominator
Quot(n, d) == IF d > 0 THEN Ratio(n, d) ELSE Ratio(-n, -d)

\* x = (xNdc + 1) * 0.5 * width, y = (1 - (yNdc + 1) * 0.5) * height
ndcToScreen(xNdc, yNdc, viewport) ==
    [x |-> Ratio((xNdc.n + xNdc.d) * viewport.width, 2 * xNdc.d),
     y |-> Ratio((yNdc.d - yNdc.n) * viewport.height, 2 * yNdc.d)]

\* mvp is scale times the program's matrix (scale > 0): the tests on clip.w
\* and the NDC quotients are unchanged by the factor, and the w that is
\* returned is clip.w / scale.
projectPoint(point, mvp, scale, viewport) ==
    LET v4   == Vec4(point.x, point.y, point.z, 1)
        clip == transformVec4(mvp, v4)
    IN  IF clip.w = 0 THEN Null
        ELSE LET xNdc   == Quot(clip.x, clip.w)
                 yNdc   == Quot(clip.y, clip.w)
                 zNdc   == Quot(clip.z, clip.w)
                 behind == clip.w < 0 \/ zNdc.n < -zNdc.d \/ zNdc.n > zNdc.d
                 screen == ndcToScreen(xNdc, yNdc, viewport)
             IN  Some([x |-> screen.x, y |-> screen.y,
                       w |-> Lowest(clip.w, scale), behind |-> behind])

----------------------------------------------------------------------------
(* core/Lighting.ts *)

Sign(n) == IF n > 0 THEN 1 ELSE IF n < 0 THEN -1 ELSE 0

\* The numbers of the lighting are ratios n / d with d >= 0 in lowest terms.
\* d = 0 holds for the three values a division by zero produces in the
\* program: 1/0 is Infinity, -1/0 is -Infinity and 0/0 is NaN.
Number(n, d) == IF d = 0 THEN Ratio(Sign(n), 0) ELSE Lowest(n, d)

NaN == Ratio(0, 0)

RatioMul(p, q) == Number(p.n * q.n, p.d * q.d)

RatioAdd(p, q) ==
    IF p.d = 0 /\ q.d = 0
    THEN IF p.n = q.n THEN p ELSE NaN
    ELSE LET g == GCD(p.d, q.d)
         IN  Number(p.n * (q.d \div g) + q.n * (p.d \div g), (p.d \div g) * q.d)

\* p / q; a zero divisor is the positive zero
RatioDiv(p, q) ==
    IF q.n < 0 THEN Number(-(p.n * q.d), p.d * (-q.n))
    ELSE Number(p.n * q.d, p.d * q.n)

\* p < q for finite p and q
RatioLess(p, q) == p.n * q.d < q.n * p.d

Zero == Ratio(0, 1)

One == Ratio(1, 1)

\* Math.max(0, q)
RatioMax0(q) == IF q.n < 0 THEN Zero ELSE q

\* Math.pow(q, k) for a whole number k >= 0
RECURSIVE Pow(_, _)
Pow(q, k) == IF k = 0 THEN One ELSE RatioMul(q, Pow(q, k - 1))

\* colour components are ratios in 0..1
hexToColorRGB(hex) ==
    IF Len(hex) = 6
    THEN [r |-> Ratio(16 * hex[1] + hex[2], 255), g |-> Ratio(16 * hex[3] + hex[4], 255),
          b |-> Ratio(16 * hex[5] + hex[6], 255)]
    ELSE IF Len(hex) = 3
    THEN [r |-> Ratio(16 * hex[1] + hex[1], 255), g |-> Ratio(16 * hex[2] + hex[2], 255),
          b |-> Ratio(16 * hex[3] + hex[3], 255)]
    ELSE [r |-> Ratio(1, 1), g |-> Ratio(1, 1), b |-> Ratio(1, 1)]

\* Math.min(1, Math.max(0, q)): NaN stays NaN
Clamp01(q) == IF q.n < 0 THEN Zero ELSE IF q.n > q.d THEN Ratio(1, 1) ELSE q

clampColor(c) == [r |-> Clamp01(c.r), g |-> Clamp01(c.g), b |-> Clamp01(c.b)]

\* A vector of the lighting is (x, y, z) / d with whole x, y, z and d > 0.
RVec(x, y, z, d) == [x |-> x, y |-> y, z |-> z, d |-> d]

FromVec3(v) == RVec(v.x, v.y, v.z, 1)

rdot(a, b) == Number(a.x * b.x + a.y * b.y + a.z * b.z, a.d * b.d)

\* the whole part of the square root of s, by bisection between lo and hi
RECURSIVE SqrtLoop(_, _, _)
SqrtLoop(s, lo, hi) ==
    IF hi - lo <= 1 THEN lo
    ELSE LET mid == (lo + hi) \div 2
         IN  IF mid * mid <= s THEN SqrtLoop(s, mid, hi) ELSE SqrtLoop(s, lo, mid)

\* Math.sqrt(s); the vectors of the model have whole lengths, Sqrt has no
\* value for another s
Sqrt(s) == CHOOSE r \in {SqrtLoop(s, 0, Min2(s + 1, 46341))} : r * r = s

\* v.length() > EPS ? v.normalize() : fallback; a vector of the model that is
\* not zero is longer than EPS = 1e-10
safeNormalize(v, fallback) ==
    IF v.x = 0 /\ v.y = 0 /\ v.z = 0 THEN fallback
    ELSE RVec(v.x, v.y, v.z, Sqrt(v.x * v.x + v.y * v.y + v.z * v.z))

\* L.scale(-1).add(N.scale(2 * NdotL)) for NdotL = k.n / k.d
reflect(L, N, k) ==
    RVec(2 * k.n * N.x * L.d - L.x * k.d * N.d,
         2 * k.n * N.y * L.d - L.y * k.d * N.d,
         2 * k.n * N.z * L.d - L.z * k.d * N.d,
         L.d * k.d * N.d)

\* the direction of a vector (x, y, z) / d: the positive d does not change it
Towards(v) == RVec(v.x, v.y, v.z, 1)

\* the rest of specularFactor for the value NdotL of N.dot(L)
specularOf(L, N, V, shininess, NdotL) ==
    IF NdotL.n <= 0 THEN Zero
    ELSE Pow(RatioMax0(rdot(safeNormalize(Towards(reflect(L, N, NdotL)), N), V)),
             shininess)

specularFactor(L, N, V, shininess) ==
    IF shininess <= 0 THEN Zero ELSE specularOf(L, N, V, shininess, rdot(N, L))

\* lightColor * att * factor * materialColor for each channel
scaledColor(lightColor, att, factor, materialColor) ==
    [r |-> RatioMul(RatioMul(RatioMul(lightColor.r, att), factor), materialColor.r),
     g |-> RatioMul(RatioMul(RatioMul(lightColor.g, att), factor), materialColor.g),
     b |-> RatioMul(RatioMul(RatioMul(lightColor.b, att), factor), materialColor.b)]

lightContribution(L, att, N, V, material, lightColor) ==
    [diffuse  |-> scaledColor(lightColor, att, RatioMax0(rdot(N, L)), material.diffuse),
     specular |-> scaledColor(lightColor, att,
                      specularFactor(L, N, V, material.shininess), material.specular)]

\* A light is a record with the fields of the three kinds of light; the
\* fields that its kind does not have are unused.  attenuation is Null or
\* Some([constant, linear, quadratic]); a spot light carries its cones as the
\* cosines cosInner and cosOuter of innerCone and outerCone.
getDirectionalLAndAtt(light) ==
    [L |-> safeNormalize(FromVec3(light.direction), FromVec3(light.direction)),
     att |-> light.intensity]

\* constant + linear * dist + quadratic * dist * dist for a whole dist
attenuationDenominator(attenuation, dist) ==
    RatioAdd(RatioAdd(attenuation.constant, RatioMul(attenuation.linear, Ratio(dist, 1))),
             RatioMul(attenuation.quadratic, Ratio(dist * dist, 1)))

pointAttenuation(light, dist) ==
    IF IsNull(light.attenuation) THEN light.intensity
    ELSE RatioDiv(light.intensity, attenuationDenominator(Val(light.attenuation), dist))

\* Null for a light at the vertex (dist < EPS)
\* the rest of getPointLAndAtt for the values of toLight and dist
pointLAndAtt(light, toLight, dist) ==
    IF dist = 0 THEN Null
    ELSE Some([L |-> RVec(toLight.x, toLight.y, toLight.z, dist),
               att |-> pointAttenuation(light, dist)])

distanceTo(toLight) == Sqrt(lengthSq(toLight))

getPointLAndAtt(light, vertexPos) ==
    pointLAndAtt(light, sub(light.position, vertexPos),
                 distanceTo(sub(light.position, vertexPos)))

\* the factor spot of a spot light for the cosine cosAngle
spotFactor(light, cosAngle) ==
    IF RatioLess(cosAngle, light.cosOuter) THEN Zero
    ELSE IF RatioLess(cosAngle, light.cosInner)
    THEN RatioDiv(RatioAdd(cosAngle, RatioMul(Ratio(-1, 1), light.cosOuter)),
                  RatioAdd(light.cosInner, RatioMul(Ratio(-1, 1), light.cosOuter)))
    ELSE One

\* att of a spot light for the value spot * light.intensity
spotAttenuation(light, dist, att) ==
    IF IsNull(light.attenuation) THEN att
    ELSE RatioDiv(att, attenuationDenominator(Val(light.attenuation), dist))

\* Math.max(0, L.negate().dot(spotDir))
spotCosAngle(L, spotDir) == RatioMax0(rdot(RVec(-L.x, -L.y, -L.z, L.d), spotDir))

\* the rest of getSpotLAndAtt for the values of toLight and dist
spotLAndAtt(light, toLight, dist) ==
    IF dist = 0 THEN Null
    ELSE Some([L |-> RVec(toLight.x, toLight.y, toLight.z, dist),
               att |-> spotAttenuation(light, dist,
                          RatioMul(spotFactor(light,
                                       spotCosAngle(
                                           RVec(toLight.x, toLight.y, toLight.z, dist),
                                           safeNormalize(FromVec3(light.direction),
                                                         FromVec3(light.direction)))),
                                   light.intensity))])

getSpotLAndAtt(light, vertexPos) ==
    spotLAndAtt(light, sub(light.position, vertexPos),
                distanceTo(sub(light.position, vertexPos)))

\* L and att of one light, Null for a light that is skipped
LAndAtt(light, vertexPos) ==
    CASE light.type = "directional" -> Some(getDirectionalLAndAtt(light))
      [] light.type = "point"       -> getPointLAndAtt(light, vertexPos)
      [] OTHER                      -> getSpotLAndAtt(light, vertexPos)

AddColor(c, e) ==
    [r |-> RatioAdd(c.r, e.r), g |-> RatioAdd(c.g, e.g), b |-> RatioAdd(c.b, e.b)]

\* rd += contrib.diffuse.r, ..., bs += contrib.specular.b
addContribution(totals, contrib) ==
    [diffuse  |-> AddColor(totals.diffuse, contrib.diffuse),
     specular |-> AddColor(totals.specular, contrib.specular)]

\* the body of the loop over the lights for one light, whose L and att are out
lightStep(light, out, N, V, material, totals) ==
    IF IsNull(out) THEN totals
    ELSE addContribution(totals,
             lightContribution(Val(out).L, Val(out).att, N, V, material, light.color))

\* the loop over the lights from light i on (0-based), with the totals so far
RECURSIVE lightLoop(_, _, _, _, _, _, _)
lightLoop(lights, i, vertexPos, N, V, material, totals) ==
    IF i >= Len(lights) THEN totals
    ELSE lightLoop(lights, i + 1, vertexPos, N, V, material,
             lightStep(At(lights, i), LAndAtt(At(lights, i), vertexPos), N, V, material,
                       totals))

\* material.emissive is a field that a material may lack
\* rd, gd, bd before the loop: ambient * material.diffuse, plus the emissive
\* colour of a material that has one
startDiffuse(ambient, material) ==
    IF "emissive" \in DOMAIN material /\ ~IsNull(material.emissive)
    THEN AddColor(ambient, Val(material.emissive))
    ELSE ambient

computeLightingComponents(vertexPos, normal, viewDir, material, lights, ambientColor) ==
    lightLoop(lights, 0, vertexPos,
        safeNormalize(FromVec3(normal), RVec(0, 1, 0, 1)),
        safeNormalize(FromVec3(viewDir), RVec(0, 0, -1, 1)),
        material,
        [diffuse  |-> startDiffuse([r |-> RatioMul(ambientColor.r, material.diffuse.r),
                                    g |-> RatioMul(ambientColor.g, material.diffuse.g),
                                    b |-> RatioMul(ambientColor.b, material.diffuse.b)],
                                   material),
         specular |-> [r |-> Zero, g |-> Zero, b |-> Zero]])

\* the sum of the two totals, clamped
clampSum(c) == clampColor(AddColor(c.diffuse, c.specular))

computeLighting(vertexPos, normal, viewDir, material, lights, ambientColor) ==
    clampSum(computeLightingComponents(vertexPos, normal, viewDir, material, lights,
                                       ambientColor))

\* each of the two totals, clamped
clampEach(c) == [diffuse |-> clampColor(c.diffuse), specular |-> clampColor(c.specular)]

computeLightingDiffuseAndSpecular(vertexPos, normal, viewDir, material, lights, ambientColor) ==
    clampEach(computeLightingComponents(vertexPos, normal, viewDir, material, lights,
                                        ambientColor))

Direction(view, d) ==
    LET t == transformVec4(view, Vec4(d.x, d.y, d.z, 0)) IN Vec3(t.x, t.y, t.z)

Position(view, p) ==
    LET t == transformVec4(view, Vec4(p.x, p.y, p.z, 1)) IN Vec3(t.x, t.y, t.z)

transformLightsToCameraSpace(lights, view) ==
    [i \in 1..Len(lights) |->
        LET light == lights[i]
        IN  CASE light.type = "directional" ->
                    [light EXCEPT !.direction = Direction(view, @)]
              [] light.type = "point" ->
                    [light EXCEPT !.position = Position(view, @)]
              [] light.type = "spot" ->
                    [light EXCEPT !.position = Position(view, @),
                                  !.direction = Direction(view, @)]
              [] OTHER -> light]

----------------------------------------------------------------------------
(* core/renderHelpers.ts: from the scene to the batches *)

\* mutant: a point that projectPoint classifies as behind is kept
projectMeshVerticesFull_keepBehind(mesh, mvp, scale, viewport) ==
    [i \in 1..Len(mesh.vertices) |-> projectPoint(mesh.vertices[i], mvp, scale, viewport)]

projectMeshVerticesFull(mesh, mvp, scale, viewport) ==
    [i \in 1..Len(mesh.vertices) |->
        LET p == projectPoint(mesh.vertices[i], mvp, scale, viewport)
        IN  IF ~IsNull(p) /\ ~Val(p).behind THEN p ELSE Null]

transformVerticesToCameraSpace(mesh, viewModel) ==
    [i \in 1..Len(mesh.vertices) |->
        LET v == mesh.vertices[i]
            c == transformVec4(viewModel, Vec4(v.x, v.y, v.z, 1))
        IN  Vec3(c.x, c.y, c.z)]

\* v.normalize() for a vector v that is not zero.  The vertex normals of the
\* model lie along the axes and its matrices turn by quarter turns, so that
\* the unit vector has whole components.
normalize(v, len) == Vec3(v.x \div len, v.y \div len, v.z \div len)

\* the body of the loop of transformNormalsToCameraSpace for the normal n: v
\* is the program's v times |det|, which has the direction of the program's v
normalToCameraSpace(c, det) ==
    LET v == Vec3(Sign(det) * c.x, Sign(det) * c.y, Sign(det) * c.z)
    IN  IF lengthSq(v) = 0 THEN Vec3(0, 1, 0) ELSE normalize(v, Sqrt(lengthSq(v)))

transformedNormals(mesh, normalMat) ==
    IF IsNull(normalMat) THEN mesh.vertexNormals
    ELSE [i \in 1..Len(mesh.vertexNormals) |->
            LET n == mesh.vertexNormals[i]
            IN  normalToCameraSpace(
                    transformVec4(Val(normalMat).num, Vec4(n.x, n.y, n.z, 0)),
                    Val(normalMat).det)]

\* mutant: the normals of a mesh are dropped when the matrix is singular
transformNormalsToCameraSpace_emptyWhenSingular(mesh, viewModel) ==
    IF Len(mesh.vertexNormals) = 0 \/ IsNull(normalMatrix(viewModel)) THEN <<>>
    ELSE transformedNormals(mesh, normalMatrix(viewModel))

transformNormalsToCameraSpace(mesh, viewModel) ==
    IF Len(mesh.vertexNormals) = 0 THEN <<>>
    ELSE transformedNormals(mesh, normalMatrix(viewModel))

negate(a) == Vec3(-a.x, -a.y, -a.z)

\* Math.round(Math.max(0, Math.min(255, c * 255))) for a colour component c
ToByte(c) == RoundClamp255(Ratio(c.n * 255, c.d))

\* the vertex that collectPolygonGouraudVertices pushes for the projected
\* point p with the lighting lit; uv is the entry of the UV table, if any
vertexOf(p, lit, useSeparateSpecular, uv) ==
    LET sum(d, s) == IF useSeparateSpecular THEN d ELSE RatioAdd(d, s)
        spec(s)   == IF useSeparateSpecular THEN Some(ToByte(s)) ELSE Null
    IN  [x |-> p.x, y |-> p.y,
         r |-> ToByte(sum(lit.diffuse.r, lit.specular.r)),
         g |-> ToByte(sum(lit.diffuse.g, lit.specular.g)),
         b |-> ToByte(sum(lit.diffuse.b, lit.specular.b)),
         invW |-> Some(Ratio(p.w.d, p.w.n)),
         sr |-> spec(lit.specular.r), sg |-> spec(lit.specular.g),
         sb |-> spec(lit.specular.b),
         u |-> IF IsNull(uv) THEN Null ELSE Some(Val(uv).u),
         v |-> IF IsNull(uv) THEN Null ELSE Some(Val(uv).v)]

\* mutant: the specular is stored separately for every polygon that declares
\* a textureUrl, whatever its UVs
GouraudVertexAt_separateByUrl(k, projectedPoints, polygon, cameraSpaceVertices, cameraSpaceNormals, faceNormal, material, lights, ambientColor, uvs, uvIndices) ==
    LET indices == polygon.vertexIndices
        useFaceNormal == Len(cameraSpaceNormals) = 0 /\ ~IsNull(faceNormal)
        hasUVs == Len(uvs) > 0 /\ ~IsNull(uvIndices)
                    /\ Len(Val(uvIndices)) = Len(indices)
        useSeparateSpecular == ~IsNull(polygon.textureUrl)
        i      == At(indices, k)
        p      == Val(At(projectedPoints, i))
        pos    == At(cameraSpaceVertices, i)
        normal == IF useFaceNormal THEN Val(faceNormal)
                  ELSE IF i < Len(cameraSpaceNormals) THEN At(cameraSpaceNormals, i)
                  ELSE IF ~IsNull(faceNormal) THEN Val(faceNormal)
                  ELSE Vec3(0, 1, 0)
        viewDir == negate(pos)
        withUV  == hasUVs /\ At(Val(uvIndices), k) < Len(uvs)
    IN  vertexOf(p,
            computeLightingDiffuseAndSpecular(pos, normal, viewDir, material, lights,
                                              ambientColor),
            useSeparateSpecular,
            IF withUV THEN Some(At(uvs, At(Val(uvIndices), k))) ELSE Null)

\* the body of the loop of collectPolygonGouraudVertices for position k of
\* the polygon, whose projected point is not null
GouraudVertexAt(k, projectedPoints, polygon, cameraSpaceVertices, cameraSpaceNormals, faceNormal, material, lights, ambientColor, uvs, uvIndices) ==
    LET indices == polygon.vertexIndices
        useFaceNormal == Len(cameraSpaceNormals) = 0 /\ ~IsNull(faceNormal)
        hasUVs == Len(uvs) > 0 /\ ~IsNull(uvIndices)
                    /\ Len(Val(uvIndices)) = Len(indices)
        useSeparateSpecular == ~IsNull(polygon.textureUrl) /\ hasUVs
        i      == At(indices, k)
        p      == Val(At(projectedPoints, i))
        pos    == At(cameraSpaceVertices, i)
        normal == IF useFaceNormal THEN Val(faceNormal)
                  ELSE IF i < Len(cameraSpaceNormals) THEN At(cameraSpaceNormals, i)
                  ELSE IF ~IsNull(faceNormal) THEN Val(faceNormal)
                  ELSE Vec3(0, 1, 0)
        viewDir == negate(pos)
        withUV  == hasUVs /\ At(Val(uvIndices), k) < Len(uvs)
    IN  vertexOf(p,
            computeLightingDiffuseAndSpecular(pos, normal, viewDir, material, lights,
                                              ambientColor),
            useSeparateSpecular,
            IF withUV THEN Some(At(uvs, At(Val(uvIndices), k))) ELSE Null)

\* mutant: a vertex whose projected point is null is skipped, the rest kept
collectPolygonGouraudVertices_skipNull(projectedPoints, polygon, cameraSpaceVertices, cameraSpaceNormals, faceNormal, material, lights, ambientColor, uvs, uvIndices) ==
    LET indices == polygon.vertexIndices
        Projected(k) == ~IsNull(At(projectedPoints, At(indices, k)))
        kept == SelectSeq([k \in 1..Len(indices) |-> k - 1], Projected)
    IN  IF Len(indices) < 2 THEN Null
        ELSE Some([j \in 1..Len(kept) |->
                GouraudVertexAt(kept[j], projectedPoints, polygon, cameraSpaceVertices,
                    cameraSpaceNormals, faceNormal, material, lights, ambientColor,
                    uvs, uvIndices)])

collectPolygonGouraudVertices(projectedPoints, polygon, cameraSpaceVertices, cameraSpaceNormals, faceNormal, material, lights, ambientColor, uvs, uvIndices) ==
    LET indices == polygon.vertexIndices
    IN  IF Len(indices) < 2 THEN Null
        ELSE IF \E k \in 0..(Len(indices) - 1) :
                    IsNull(At(projectedPoints, At(indices, k)))
        THEN Null
        ELSE Some([j \in 1..Len(indices) |->
                GouraudVertexAt(j - 1, projectedPoints, polygon, cameraSpaceVertices,
                    cameraSpaceNormals, faceNormal, material, lights, ambientColor,
                    uvs, uvIndices)])

\* mutant: the depth key is the z of the first vertex
polygonDepth_firstVertex(vertexIndices, cameraSpaceVertices) ==
    IF Len(vertexIndices) = 0 THEN 0
    ELSE At(cameraSpaceVertices, At(vertexIndices, 0)).z

\* the loop of polygonDepth from position k on, with the minimum so far
RECURSIVE minZLoop(_, _, _, _)
minZLoop(vertexIndices, cameraSpaceVertices, k, minZ) ==
    IF k >= Len(vertexIndices) THEN minZ
    ELSE LET z == At(cameraSpaceVertices, At(vertexIndices, k)).z
         IN  minZLoop(vertexIndices, cameraSpaceVertices, k + 1,
                      IF z < minZ THEN z ELSE minZ)

polygonDepth(vertexIndices, cameraSpaceVertices) ==
    IF Len(vertexIndices) = 0 THEN 0
    ELSE minZLoop(vertexIndices, cameraSpaceVertices, 1,
                  At(cameraSpaceVertices, At(vertexIndices, 0)).z)

\* options.textureMap.get(url): undefined for a url that has no entry
textureMapGet(textureMap, url) ==
    IF url \in DOMAIN textureMap THEN Some(textureMap[url]) ELSE Null

\* The loop over mesh.polygons from polygon k on.  obj holds what the
\* object loop computed for this object (mesh, cameraSpaceVertices,
\* cameraSpaceNormals, projectedPoints) and its position objectIndex in
\* scene.objects; each batch records in polygon which polygon of which
\* object it was built from (a history field that no operation reads).
\* batches.push(...) for a polygon that is not culled and whose vertices
\* were collected
\* mutant: batchIndex is the position of the polygon in its mesh
pushBatch_indexInMesh(batches, culled, vertices, depth, texture, polygon) ==
    IF ~culled /\ ~IsNull(vertices) /\ Len(Val(vertices)) >= 2
    THEN Append(batches,
            [vertices |-> Val(vertices), depth |-> depth, texture |-> texture,
             batchIndex |-> polygon[2], polygon |-> polygon])
    ELSE batches

pushBatch(batches, culled, vertices, depth, texture, polygon) ==
    IF ~culled /\ ~IsNull(vertices) /\ Len(Val(vertices)) >= 2
    THEN Append(batches,
            [vertices |-> Val(vertices), depth |-> depth, texture |-> texture,
             batchIndex |-> Len(batches), polygon |-> polygon])
    ELSE batches

\* the material of a polygon of the mesh
polygonMaterial(mesh, polygon) ==
    [diffuse   |-> hexToColorRGB(polygon.color),
     specular  |-> IF ~IsNull(mesh.material)
                   THEN hexToColorRGB(Val(mesh.material).specular)
                   ELSE [r |-> Ratio(1, 2), g |-> Ratio(1, 2), b |-> Ratio(1, 2)],
     shininess |-> IF ~IsNull(mesh.material)
                   THEN Val(mesh.material).shininess ELSE 32]

\* the texture of the batch of a polygon
polygonTexture(polygon, options) ==
    IF ~IsNull(polygon.textureUrl) /\ ~IsNull(options.textureMap)
    THEN textureMapGet(Val(options.textureMap), Val(polygon.textureUrl))
    ELSE Null

\* mutant: a polygon whose debug segment is drawn emits no batch
polygonBatches_segmentInsteadOfBatch(obj, k, polygon, faceNormal, lights, ambientColor, options, batches) ==
    pushBatch(batches,
        \/ options.applyBackFaceCulling
              /\ isBackFacing(polygon.vertexIndices, obj.cameraSpaceVertices, faceNormal)
        \/ ("debugShowDirection" \in DOMAIN options /\ options.debugShowDirection
              /\ ~IsNull(faceNormal)),
        collectPolygonGouraudVertices(obj.projectedPoints, polygon,
            obj.cameraSpaceVertices, obj.cameraSpaceNormals, faceNormal,
            polygonMaterial(obj.mesh, polygon), lights, ambientColor, obj.mesh.uvs,
            polygon.uvIndices),
        polygonDepth(polygon.vertexIndices, obj.cameraSpaceVertices),
        polygonTexture(polygon, options),
        <<obj.objectIndex, k>>)

\* the body of the loop over mesh.polygons for polygon k with the face
\* normal faceNormal: the batches with the batch of the polygon, if any
polygonBatches(obj, k, polygon, faceNormal, lights, ambientColor, options, batches) ==
    pushBatch(batches,
        options.applyBackFaceCulling
            /\ isBackFacing(polygon.vertexIndices, obj.cameraSpaceVertices, faceNormal),
        collectPolygonGouraudVertices(obj.projectedPoints, polygon,
            obj.cameraSpaceVertices, obj.cameraSpaceNormals, faceNormal,
            polygonMaterial(obj.mesh, polygon), lights, ambientColor, obj.mesh.uvs,
            polygon.uvIndices),
        polygonDepth(polygon.vertexIndices, obj.cameraSpaceVertices),
        polygonTexture(polygon, options),
        <<obj.objectIndex, k>>)

RECURSIVE polygonLoop(_, _, _, _, _, _)
polygonLoop(obj, k, lights, ambientColor, options, batches) ==
    IF k >= Len(obj.mesh.polygons) THEN batches
    ELSE polygonLoop(obj, k + 1, lights, ambientColor, options,
            polygonBatches(obj, k, At(obj.mesh.polygons, k),
                polygonNormal(At(obj.mesh.polygons, k).vertexIndices,
                              obj.cameraSpaceVertices),
                lights, ambientColor, options, batches))

\* worldRadius of an object
worldRadius(object) ==
    object.mesh.boundingRadius * Max3(object.scale.x, object.scale.y, object.scale.z)

\* the test at the head of the loop over scene.objects: FALSE for an object
\* that is culled
objectVisible(camera, object, view, viewport) ==
    isSphereInFrustum(object.position, worldRadius(object), view, camera.tanHalfFovY,
                      Ratio(viewport.width, viewport.height), camera.near, camera.far)

\* the body of the loop over scene.objects for object number o: the batches
\* with those of the object appended, or unchanged when the object is culled
objectBatches(scene, o, view, viewProj, scale, viewport, options, batches) ==
    LET object      == At(scene.objects, o)
        camera      == scene.camera
        mesh        == object.mesh
        visible     == objectVisible(camera, object, view, viewport)
        model       == getModelMatrix(object)
        viewModel   == multiply(view, model)
        mvp         == multiply(viewProj, model)
        obj         == [mesh |-> mesh, objectIndex |-> o,
                        cameraSpaceVertices |->
                            transformVerticesToCameraSpace(mesh, viewModel),
                        cameraSpaceNormals |->
                            transformNormalsToCameraSpace(mesh, viewModel),
                        projectedPoints |->
                            projectMeshVerticesFull(mesh, mvp, scale, viewport)]
        lightsCamera == transformLightsToCameraSpace(scene.lights, view)
    IN  IF visible
        THEN polygonLoop(obj, 0, lightsCamera, scene.ambientColor, options, batches)
        ELSE batches

\* the loop over scene.objects from object o on
RECURSIVE objectLoop(_, _, _, _, _, _, _, _)
objectLoop(scene, o, view, viewProj, scale, viewport, options, batches) ==
    IF o >= Len(scene.objects) THEN batches
    ELSE objectLoop(scene, o + 1, view, viewProj, scale, viewport, options,
            objectBatches(scene, o, view, viewProj, scale, viewport, options, batches))

\* mutant: the sorted batches in the opposite order, the nearest first
paintersSort_nearestFirst(options, batches) ==
    IF options.applyPaintersAlgorithm
    THEN [i \in 1..Len(batches) |-> sortBatches(batches)[Len(batches) + 1 - i]]
    ELSE batches

\* the painter's sort at the end of projectSceneToFilledPolygons
paintersSort(options, batches) ==
    IF options.applyPaintersAlgorithm THEN sortBatches(batches) ELSE batches

\* options?.debugShowDirection: a field that the options may lack
debugShowDirection(options) ==
    "debugShowDirection" \in DOMAIN options /\ options.debugShowDirection

DEBUG_NORMAL_LENGTH == Ratio(2, 5)

\* the sum of the positions of the vertices of a polygon from position k on
RECURSIVE positionSum(_, _, _)
positionSum(vertexIndices, cameraSpaceVertices, k) ==
    IF k >= Len(vertexIndices) THEN Vec3(0, 0, 0)
    ELSE add(At(cameraSpaceVertices, At(vertexIndices, k)),
             positionSum(vertexIndices, cameraSpaceVertices, k + 1))

\* the average of the positions, as the vector sum / n
centerOf(sum, n) == RVec(sum.x, sum.y, sum.z, n)

polygonCenter(vertexIndices, cameraSpaceVertices) ==
    IF Len(vertexIndices) = 0 THEN RVec(0, 0, 0, 1)
    ELSE centerOf(positionSum(vertexIndices, cameraSpaceVertices, 0), Len(vertexIndices))

\* center.add(faceNormal.scale(DEBUG_NORMAL_LENGTH)) for the face normal
\* n / len, where n is the cross product that polygonNormal returns and len
\* its length, which is whole for the polygons whose segments the model draws
segmentEnd(center, n, len) ==
    RVec(DEBUG_NORMAL_LENGTH.d * len * center.x + DEBUG_NORMAL_LENGTH.n * center.d * n.x,
         DEBUG_NORMAL_LENGTH.d * len * center.y + DEBUG_NORMAL_LENGTH.n * center.d * n.y,
         DEBUG_NORMAL_LENGTH.d * len * center.z + DEBUG_NORMAL_LENGTH.n * center.d * n.z,
         DEBUG_NORMAL_LENGTH.d * len * center.d)

\* projectPoint for a point (x, y, z) / d with d > 0: the homogeneous vector
\* (x, y, z, d) is d times the program's, which changes neither the tests on
\* clip.w nor the NDC quotients
projectRational(point, m, scale, viewport) ==
    LET clip == transformVec4(m, Vec4(point.x, point.y, point.z, point.d))
    IN  IF clip.w = 0 THEN Null
        ELSE LET xNdc   == Quot(clip.x, clip.w)
                 yNdc   == Quot(clip.y, clip.w)
                 zNdc   == Quot(clip.z, clip.w)
                 behind == clip.w < 0 \/ zNdc.n < -zNdc.d \/ zNdc.n > zNdc.d
                 screen == ndcToScreen(xNdc, yNdc, viewport)
             IN  Some([x |-> screen.x, y |-> screen.y,
                       w |-> Lowest(clip.w, scale * point.d), behind |-> behind])

\* debugNormalSegments.push(...) for the projections of the two ends
pushSegment(segments, pStart, pEnd) ==
    IF ~IsNull(pStart) /\ ~Val(pStart).behind /\ ~IsNull(pEnd) /\ ~Val(pEnd).behind
    THEN Append(segments, <<Val(pStart).x, Val(pStart).y, Val(pEnd).x, Val(pEnd).y>>)
    ELSE segments

\* the end of the body of the loop over mesh.polygons: the debug segments
\* with the segment of the polygon, if any.  projection is scale times the
\* projection matrix of the camera.
polygonSegments(obj, polygon, faceNormal, projection, scale, viewport, options, segments) ==
    IF options.applyBackFaceCulling
         /\ isBackFacing(polygon.vertexIndices, obj.cameraSpaceVertices, faceNormal)
    THEN segments
    ELSE IF debugShowDirection(options) /\ ~IsNull(faceNormal)
    THEN pushSegment(segments,
            projectRational(polygonCenter(polygon.vertexIndices, obj.cameraSpaceVertices),
                            projection, scale, viewport),
            projectRational(segmentEnd(polygonCenter(polygon.vertexIndices,
                                                     obj.cameraSpaceVertices),
                                       Val(faceNormal), Sqrt(lengthSq(Val(faceNormal)))),
                            projection, scale, viewport))
    ELSE segments

RECURSIVE segmentLoop(_, _, _, _, _, _, _)
segmentLoop(obj, k, projection, scale, viewport, options, segments) ==
    IF k >= Len(obj.mesh.polygons) THEN segments
    ELSE segmentLoop(obj, k + 1, projection, scale, viewport, options,
            polygonSegments(obj, At(obj.mesh.polygons, k),
                polygonNormal(At(obj.mesh.polygons, k).vertexIndices,
                              obj.cameraSpaceVertices),
                projection, scale, viewport, options, segments))

\* the debug segments that the body of the loop over scene.objects adds for
\* object number o
objectSegments(scene, o, view, scale, viewport, options, segments) ==
    LET object  == At(scene.objects, o)
        camera  == scene.camera
        aspect  == Ratio(viewport.width, viewport.height)
        visible == objectVisible(camera, object, view, viewport)
        obj     == [mesh |-> object.mesh,
                    cameraSpaceVertices |->
                        transformVerticesToCameraSpace(object.mesh,
                            multiply(view, getModelMatrix(object)))]
    IN  IF visible
        THEN segmentLoop(obj, 0, getProjectionMatrix(camera, aspect), scale, viewport,
                         options, segments)
        ELSE segments

RECURSIVE objectSegmentLoop(_, _, _, _, _, _, _)
objectSegmentLoop(scene, o, view, scale, viewport, options, segments) ==
    IF o >= Len(scene.objects) THEN segments
    ELSE objectSegmentLoop(scene, o + 1, view, scale, viewport, options,
            objectSegments(scene, o, view, scale, viewport, options, segments))

\* viewProj is scale times the caller's projection * view.  The loops over
\* the objects and their polygons fill two lists, the batches and the debug
\* segments; objectLoop is the loops with what they do to the batches,
\* objectSegmentLoop the same loops with what they do to the segments.
projectSceneToFilledPolygons(scene, viewProj, scale, viewport, options) ==
    [batches |->
        paintersSort(options,
            objectLoop(scene, 0, getViewMatrix(scene.camera), viewProj, scale, viewport,
                       options, <<>>)),
     debugNormalSegments |->
        IF debugShowDirection(options)
        THEN objectSegmentLoop(scene, 0, getViewMatrix(scene.camera), scale, viewport,
                               options, <<>>)
        ELSE <<>>]

----------------------------------------------------------------------------
(* utils.ts, core/Canvas.ts, core/Input.ts: what the render callback calls *)

\* The batches carry screen coordinates as ratios of pixels, the rasterizer
\* counts in half pixels.  The scenes of the render loop project onto the
\* half-pixel grid; HalfPixels has no value for a coordinate off the grid.
HalfPixels(q) == CHOOSE h \in {(2 * q.n) \div q.d} : h * q.d = 2 * q.n

ScreenVertex(vertex) == [vertex EXCEPT !.x = HalfPixels(@), !.y = HalfPixels(@)]

\* mutant: a batch of four or more vertices is drawn as a fan of triangles,
\* of which the model draws the first two
rasterizeBatch_fan(framebuffer, batch) ==
    IF Len(batch.vertices) >= 4
    THEN rasterizeTriangleGouraud(
             rasterizeTriangleGouraud(framebuffer,
                 ScreenVertex(At(batch.vertices, 0)), ScreenVertex(At(batch.vertices, 1)),
                 ScreenVertex(At(batch.vertices, 2))),
             ScreenVertex(At(batch.vertices, 0)), ScreenVertex(At(batch.vertices, 2)),
             ScreenVertex(At(batch.vertices, 3)))
    ELSE IF Len(batch.vertices) = 3
    THEN rasterizeTriangleGouraud(framebuffer,
             ScreenVertex(At(batch.vertices, 0)), ScreenVertex(At(batch.vertices, 1)),
             ScreenVertex(At(batch.vertices, 2)))
    ELSE framebuffer

\* the body of the loop of rasterizeBatches
rasterizeBatch(framebuffer, batch) ==
    IF Len(batch.vertices) >= 3
    THEN IF ~IsNull(batch.texture)
         THEN rasterizeTriangleGouraudTextured(framebuffer,
                  ScreenVertex(At(batch.vertices, 0)), ScreenVertex(At(batch.vertices, 1)),
                  ScreenVertex(At(batch.vertices, 2)), Val(batch.texture))
         ELSE rasterizeTriangleGouraud(framebuffer,
                  ScreenVertex(At(batch.vertices, 0)), ScreenVertex(At(batch.vertices, 1)),
                  ScreenVertex(At(batch.vertices, 2)))
    ELSE framebuffer

\* A canvas is the image last put on it and what was drawn over it since.
Canvas(width, height) ==
    [image |-> [i \in 1..(4 * width * height) |-> 0], overlay |-> <<>>]

\* ctx.putImageData(framebuffer.colorBuffer, 0, 0) replaces every pixel
blit(canvas, framebuffer) == [image |-> framebuffer.data, overlay |-> <<>>]

\* Math.round(1 / deltaTime) for a whole number of seconds deltaTime > 0
RoundInverse(deltaTime) == (2 + deltaTime) \div (2 * deltaTime)

\* The scenes of the model carry no lights, so showLightSources draws nothing.
drawDebugOverlay(canvas, scene, debugNormalSegments, deltaTime, debug) ==
    LET lines == IF Len(debugNormalSegments) > 0
                 THEN <<[kind |-> "lines", fps |-> 0]>> ELSE <<>>
        fps   == IF deltaTime > 0 THEN RoundInverse(deltaTime) ELSE 0
        text  == IF debug.showFps THEN <<[kind |-> "text", fps |-> fps]>> ELSE <<>>
    IN  [canvas EXCEPT !.overlay = @ \o lines \o text]

\* No key is held in the frames of the model: yaw and pitch come back as they
\* were, the orientation is set from them again and the position stays.
updateCamera(yaw, pitch, camera, deltaTime) ==
    [yaw |-> yaw, pitch |-> pitch, camera |-> [camera EXCEPT !.yaw = yaw]]

----------------------------------------------------------------------------
(* core/Input.ts with the keys of the keyboard, math/vec3.ts: Quat          *)
(*                                                                           *)
(* Angles are whole degrees, deltaTime is a number of half seconds, and      *)
(* sines, cosines, the components of a quaternion and the coordinates of     *)
(* the camera are whole thousandths.                                         *)

\* n / d rounded to the nearest integer, for d > 0
Rounded(n, d) == (2 * n + d) \div (2 * d)

\* the product of two numbers in thousandths
Times(a, b) == Rounded(a * b, 1000)

\* 1000 * sin of h half degrees for the h in 0..180 that the angles of the
\* model and their halves need; SineOf has no value for another h
SineOf(h) ==
    CASE h = 0 -> 0      [] h = 1 -> 9       [] h = 2 -> 17      [] h = 20 -> 174
      [] h = 40 -> 342   [] h = 70 -> 574    [] h = 89 -> 701    [] h = 90 -> 707
      [] h = 91 -> 713   [] h = 110 -> 819   [] h = 140 -> 940   [] h = 160 -> 985
      [] h = 178 -> 1000 [] h = 179 -> 1000  [] h = 180 -> 1000

\* sin of the first half turn: sin(180 - x) = sin x
SineHalfTurn(m) == IF m <= 180 THEN SineOf(m) ELSE SineOf(360 - m)

\* Math.sin of h half degrees: sin(x + 180) = -sin x
MathSin(h) ==
    IF h % 720 <= 360 THEN SineHalfTurn(h % 720) ELSE -SineHalfTurn((h % 720) - 360)

\* Math.cos of h half degrees
MathCos(h) == MathSin(h + 180)

Quat(x, y, z, w) == [x |-> x, y |-> y, z |-> z, w |-> w]

quatLength(q) ==
    SqrtLoop(q.x * q.x + q.y * q.y + q.z * q.z + q.w * q.w, 0, 46341)

\* Quat.normalize
quatNormalize(q) ==
    IF quatLength(q) = 0 THEN Quat(0, 0, 0, 1000)
    ELSE Quat(Rounded(q.x * 1000, quatLength(q)), Rounded(q.y * 1000, quatLength(q)),
              Rounded(q.z * 1000, quatLength(q)), Rounded(q.w * 1000, quatLength(q)))

\* Quat.fromEuler(yaw, pitch, roll): half of an angle of a degrees is a
\* half degrees
fromEuler(yaw, pitch, roll) ==
    LET cy == MathCos(yaw)
        sy == MathSin(yaw)
        cx == MathCos(pitch)
        sx == MathSin(pitch)
        cz == MathCos(roll)
        sz == MathSin(roll)
    IN  quatNormalize(Quat(Times(Times(cy, sx), cz) + Times(Times(sy, cx), sz),
                           Times(Times(sy, cx), cz) - Times(Times(cy, sx), sz),
                           Times(Times(cy, cx), sz) - Times(Times(sy, sx), cz),
                           Times(Times(cy, cx), cz) + Times(Times(sy, sx), sz)))

\* mutant: the value is limited from below only
clamp_lowerOnly(value, min, max) == IF value < min THEN min ELSE value

\* math/utils.ts: clamp
clamp(value, min, max) ==
    IF value < min THEN min ELSE IF value > max THEN max ELSE value

\* the handlers of keydown and keyup
keysAdd(keys, key) == keys \cup {key}

keysDelete(keys, key) == keys \ {key}

\* rotSpeed * deltaTime in degrees: 60 degrees per second
rotStep(deltaTime) == 30 * deltaTime

\* yaw and pitch after the arrow keys, pitch before the clamp
lookAround(keys, yaw, pitch, deltaTime) ==
    [yaw |-> yaw - (IF "ArrowLeft" \in keys THEN rotStep(deltaTime) ELSE 0)
                 + (IF "ArrowRight" \in keys THEN rotStep(deltaTime) ELSE 0),
     pitch |-> pitch + (IF "ArrowUp" \in keys THEN rotStep(deltaTime) ELSE 0)
                     - (IF "ArrowDown" \in keys THEN rotStep(deltaTime) ELSE 0)]

maxPitch == 89

\* forward and right of the camera for yaw and pitch
forwardOf(yaw, pitch) ==
    Vec3(Times(MathSin(2 * yaw), MathCos(2 * pitch)), MathSin(2 * pitch),
         Times(-MathCos(2 * yaw), MathCos(2 * pitch)))

rightOf(yaw) == Vec3(MathCos(2 * yaw), 0, MathSin(2 * yaw))

\* moveDir after the four tests of W, S, A and D, from Vec3.zero()
moveStep(pressed, moveDir, v, sign) ==
    IF ~pressed THEN moveDir
    ELSE IF sign > 0 THEN add(moveDir, v) ELSE sub(moveDir, v)

moveDirOf(keys, forward, right) ==
    moveStep("d" \in keys \/ "D" \in keys,
        moveStep("a" \in keys \/ "A" \in keys,
            moveStep("s" \in keys \/ "S" \in keys,
                moveStep("w" \in keys \/ "W" \in keys, Vec3(0, 0, 0), forward, 1),
                forward, -1),
            right, -1),
        right, 1)

\* Vec3.normalize in thousandths
vecNormalize(v) ==
    IF SqrtLoop(lengthSq(v), 0, 46341) = 0 THEN Vec3(0, 0, 0)
    ELSE Vec3(Rounded(v.x * 1000, SqrtLoop(lengthSq(v), 0, 46341)),
              Rounded(v.y * 1000, SqrtLoop(lengthSq(v), 0, 46341)),
              Rounded(v.z * 1000, SqrtLoop(lengthSq(v), 0, 46341)))

\* camera.position after the movement: moveSpeed * deltaTime is 2 * deltaTime
\* for deltaTime in half seconds
movedPosition(position, moveDir, deltaTime) ==
    IF lengthSq(moveDir) > 0
    THEN add(position, Vec3(vecNormalize(moveDir).x * 2 * deltaTime,
                            vecNormalize(moveDir).y * 2 * deltaTime,
                            vecNormalize(moveDir).z * 2 * deltaTime))
    ELSE position

\* the rest of updateCamera for the yaw and the clamped pitch
cameraAfter(keys, yaw, pitch, camera, deltaTime) ==
    [yaw |-> yaw, pitch |-> pitch,
     camera |-> [camera EXCEPT
        !.orientation = fromEuler(yaw, pitch, 0),
        !.position = movedPosition(@, moveDirOf(keys, forwardOf(yaw, pitch), rightOf(yaw)),
                                   deltaTime)]]

\* InputController.updateCamera with the keys that are down: the returned
\* yaw and pitch and the camera after the call
updateCameraKeys(keys, yaw, pitch, camera, deltaTime) ==
    cameraAfter(keys, lookAround(keys, yaw, pitch, deltaTime).yaw,
                clamp(lookAround(keys, yaw, pitch, deltaTime).pitch, -maxPitch, maxPitch),
                camera, deltaTime)

----------------------------------------------------------------------------
(* index.ts: the render loop *)

\* mutant: the batches are rasterized before they are sorted
renderSuccessor_rasterizeBeforeSort(pc) ==
    CASE pc = "idle"      -> "clear"
      [] pc = "clear"     -> "update"
      [] pc = "update"    -> "collect"
      [] pc = "collect"   -> "rasterize"
      [] pc = "rasterize" -> "sort"
      [] pc = "sort"      -> "blit"
      [] pc = "blit"      -> "overlay"
      [] pc = "overlay"   -> "request"
      [] OTHER            -> "idle"

\* The statements of render in program order; a position names the
\* statement that runs next, "idle" is the callback not running.
renderSuccessor(pc) ==
    CASE pc = "idle"      -> "clear"
      [] pc = "clear"     -> "update"
      [] pc = "update"    -> "collect"
      [] pc = "collect"   -> "sort"
      [] pc = "sort"      -> "rasterize"
      [] pc = "rasterize" -> "blit"
      [] pc = "blit"      -> "overlay"
      [] pc = "overlay"   -> "request"
      [] OTHER            -> "idle"

\* an entry of the history of the running frame
Event(phase, index) == [phase |-> phase, index |-> index]

\* the options render passes to projectSceneToFilledPolygons
RenderOptions ==
    [applyBackFaceCulling |-> app.config.applyBackFaceCulling,
     applyPaintersAlgorithm |-> app.config.applyPaintersAlgorithm,
     textureMap |-> app.textureMap]

----------------------------------------------------------------------------
(* Inputs *)

MaxBatches == 3

DepthKeys == {-10, -5, -4, -3}

\* batches as projectSceneToFilledPolygons pushes them: batchIndex = position
EmittedBatches ==
    {[k \in 1..Len(ds) |-> [depth |-> ds[k], batchIndex |-> k - 1]] :
        ds \in SeqUpTo(DepthKeys, MaxBatches)}

GridXY == {-1, 0, 1}

GridZ == {-5, 0}

GridVertices == {Vec3(x, y, z) : x \in GridXY, y \in GridXY, z \in GridZ}

IndexLists == {<<0, 1>>, <<0, 1, 2>>, <<0, 2, 1>>, <<2, 1, 0>>}

----------------------------------------------------------------------------
(* Specification of the Painter's sort as a function *)

InitSort ==
    /\ app = NoApplication
    /\ loop = NoRenderLoop
    /\ call \in {[op |-> "sort", batches |-> b] : b \in EmittedBatches}
    /\ ret = Pending
    /\ fb = NoFramebuffer

SortBatches ==
    /\ call.op = "sort"
    /\ ~ret.done
    /\ ret' = Returned(sortBatches(call.batches))
    /\ UNCHANGED <<call, fb, app, loop>>

NextSort == SortBatches

SpecSort == InitSort /\ [][NextSort]_vars

(* Specification of the back-face test as a function *)

InitBackFace ==
    /\ app = NoApplication
    /\ loop = NoRenderLoop
    /\ call \in {[op |-> "isBackFacing", vertexIndices |-> ix,
                  cameraSpaceVertices |-> <<a, b, c>>] :
                    ix \in IndexLists, a \in GridVertices,
                    b \in GridVertices, c \in GridVertices}
    /\ ret = Pending
    /\ fb = NoFramebuffer

IsBackFacing ==
    /\ call.op = "isBackFacing"
    /\ ~ret.done
    /\ ret' = Returned(isBackFacing(call.vertexIndices, call.cameraSpaceVertices,
                    polygonNormal(call.vertexIndices, call.cameraSpaceVertices)))
    /\ UNCHANGED <<call, fb, app, loop>>

NextBackFace == IsBackFacing

SpecBackFace == InitBackFace /\ [][NextBackFace]_vars

(* Specification of the frustum test as a function *)

MaxCoord == 3

MaxRadius == 3

SphereCenters ==
    {Vec3(x, y, z) : x \in {-MaxCoord, -1, 0, 2}, y \in {-2, 0, MaxCoord},
                     z \in (-MaxCoord - 4)..2}

Cameras == {[position |-> Vec3(0, 0, 0), yaw |-> 0],
            [position |-> Vec3(1, 0, -1), yaw |-> 0],
            [position |-> Vec3(0, 0, -2), yaw |-> 2],
            [position |-> Vec3(0, 1, 0), yaw |-> 1]}

TanHalfFovs == {Ratio(1, 2), Ratio(1, 1), Ratio(2, 1)}

Aspects == {Ratio(1, 1), Ratio(4, 3)}

NearFars == {<<1, 3>>, <<2, 5>>}

InitFrustum ==
    /\ app = NoApplication
    /\ loop = NoRenderLoop
    /\ call \in {[op |-> "isSphereInFrustum", worldCenter |-> c, worldRadius |-> r,
                  camera |-> cam, tanHalfFovY |-> t, aspect |-> asp,
                  near |-> nf[1], far |-> nf[2]] :
                    c \in SphereCenters, r \in -1..MaxRadius, cam \in Cameras,
                    t \in TanHalfFovs, asp \in Aspects, nf \in NearFars}
    /\ ret = Pending
    /\ fb = NoFramebuffer

IsSphereInFrustum ==
    /\ call.op = "isSphereInFrustum"
    /\ ~ret.done
    /\ ret' = Returned(isSphereInFrustum(call.worldCenter, call.worldRadius,
                    getViewMatrix(call.camera), call.tanHalfFovY, call.aspect,
                    call.near, call.far))
    /\ UNCHANGED <<call, fb, app, loop>>

NextFrustum == IsSphereInFrustum

SpecFrustum == InitFrustum /\ [][NextFrustum]_vars

(* Specification of the three rasterizers as functions of one triangle.  The *)
(* rasterizers return nothing; ret.val records the coordinates of the stores *)
(* the call issued through putPixelUnsafe.                                   *)

FbWidth == 4

FbHeight == 3

ExampleSize == 64

\* vertex positions in half pixels: outside the framebuffer on every side,
\* on pixel centres (odd) and on pixel corners (even)
RasterPoints ==
    {[x |-> x, y |-> y] : x \in {-2, 1, 4, 2 * FbWidth + 2},
                          y \in {-1, 2, 5, 2 * FbHeight + 2}}

GouraudVertex(p, rgb, invW, uv) ==
    [x |-> p.x, y |-> p.y, r |-> rgb[1], g |-> rgb[2], b |-> rgb[3],
     invW |-> invW, u |-> uv[1], v |-> uv[2], sr |-> Null, sg |-> Null, sb |-> Null]

NoUV == <<Null, Null>>

\* per-vertex attributes <<colour, invW, uv>> of the three vertices
AttrPerspective ==
    <<<< <<255, 0, 0>>, Some(Ratio(1, 1)), NoUV >>,
      << <<0, 255, 0>>, Some(Ratio(1, 2)), NoUV >>,
      << <<0, 0, 255>>, Some(Ratio(1, 3)), NoUV >> >>

AttrLinear ==
    <<<< <<255, 0, 0>>, Null, NoUV >>,
      << <<0, 255, 0>>, Some(Ratio(1, 2)), NoUV >>,
      << <<40, 40, 255>>, Some(Ratio(1, 3)), NoUV >> >>

AttrNegativeInvW ==
    <<<< <<255, 255, 0>>, Some(Ratio(1, 1)), NoUV >>,
      << <<0, 255, 0>>, Some(Ratio(-1, 2)), NoUV >>,
      << <<0, 0, 255>>, Some(Ratio(1, 3)), NoUV >> >>

AttrTextured ==
    <<<< <<255, 255, 255>>, Some(Ratio(1, 1)), <<Some(Ratio(0, 1)), Some(Ratio(0, 1))>> >>,
      << <<128, 128, 128>>, Some(Ratio(1, 2)), <<Some(Ratio(5, 4)), Some(Ratio(0, 1))>> >>,
      << <<255, 128, 0>>,   Some(Ratio(1, 2)), <<Some(Ratio(0, 1)), Some(Ratio(-1, 2))>> >> >>

\* a 2 x 2 texture with four different texels
Checker ==
    [width |-> 2, height |-> 2,
     data |-> <<255, 0, 0, 255,   0, 255, 0, 255,   0, 0, 255, 255,   200, 200, 200, 255>>]

Orange == <<15, 15, 8, 8, 0, 0>>

FlatCall(pa, pb, pc) ==
    [op |-> "rasterizeTriangle", a |-> pa, b |-> pb, c |-> pc, color |-> Orange]

GouraudCall(pa, pb, pc, at) ==
    [op |-> "rasterizeTriangleGouraud",
     a |-> GouraudVertex(pa, at[1][1], at[1][2], at[1][3]),
     b |-> GouraudVertex(pb, at[2][1], at[2][2], at[2][3]),
     c |-> GouraudVertex(pc, at[3][1], at[3][2], at[3][3])]

TexturedCall(pa, pb, pc, at) ==
    [op |-> "rasterizeTriangleGouraudTextured",
     a |-> GouraudVertex(pa, at[1][1], at[1][2], at[1][3]),
     b |-> GouraudVertex(pb, at[2][1], at[2][2], at[2][3]),
     c |-> GouraudVertex(pc, at[3][1], at[3][2], at[3][3]),
     texture |-> Checker]

AttrTexturedLinear ==
    <<<< <<255, 255, 255>>, Null, <<Some(Ratio(0, 1)), Some(Ratio(0, 1))>> >>,
      << <<128, 128, 128>>, Null, <<Some(Ratio(1, 1)), Some(Ratio(0, 1))>> >>,
      << <<255, 128, 0>>,   Null, <<Some(Ratio(0, 1)), Some(Ratio(1, 1))>> >> >>

\* textured, with an invW below zero at the third vertex
AttrTexturedNegativeInvW ==
    <<<< <<255, 255, 255>>, Some(Ratio(1, 1)), <<Some(Ratio(0, 1)), Some(Ratio(0, 1))>> >>,
      << <<128, 128, 128>>, Some(Ratio(1, 2)), <<Some(Ratio(5, 4)), Some(Ratio(0, 1))>> >>,
      << <<255, 128, 0>>,   Some(Ratio(-1, 1)), <<Some(Ratio(0, 1)), Some(Ratio(-1, 2))>> >> >>

\* the same colour at the three vertices, with the given three invW
Amber == <<200, 100, 37>>

AttrUniform(ia, ib, ic) ==
    << <<Amber, ia, NoUV>>, <<Amber, ib, NoUV>>, <<Amber, ic, NoUV>> >>

\* specular channels sr, sg, sb of the three vertices of a textured triangle
SpecularOf == << <<100, 50, 0>>, <<0, 0, 0>>, <<255, 200, 30>> >>

WithSpecular(vertex, s) ==
    [vertex EXCEPT !.sr = Some(s[1]), !.sg = Some(s[2]), !.sb = Some(s[3])]

TexturedSpecularCall(pa, pb, pc, at) ==
    LET t == TexturedCall(pa, pb, pc, at)
    IN  [t EXCEPT !.a = WithSpecular(@, SpecularOf[1]), !.b = WithSpecular(@, SpecularOf[2]),
                  !.c = WithSpecular(@, SpecularOf[3])]

RasterKinds ==
    {"flat", "perspective", "linear", "negativeInvW", "textured",
     "texturedNegativeInvW", "uniformPerspective", "uniformEqualInvW", "uniformLinear",
     "uniformMixed", "texturedSpecular"}

TriangleCall(kind, pa, pb, pc) ==
    CASE kind = "flat"         -> FlatCall(pa, pb, pc)
      [] kind = "perspective"  -> GouraudCall(pa, pb, pc, AttrPerspective)
      [] kind = "linear"       -> GouraudCall(pa, pb, pc, AttrLinear)
      [] kind = "negativeInvW" -> GouraudCall(pa, pb, pc, AttrNegativeInvW)
      [] kind = "textured"     -> TexturedCall(pa, pb, pc, AttrTextured)
      [] kind = "texturedNegativeInvW" ->
            TexturedCall(pa, pb, pc, AttrTexturedNegativeInvW)
      [] kind = "uniformPerspective" ->
            GouraudCall(pa, pb, pc,
                AttrUniform(Some(Ratio(3, 1)), Some(Ratio(1, 5)), Some(Ratio(1, 1))))
      [] kind = "uniformEqualInvW" ->
            GouraudCall(pa, pb, pc,
                AttrUniform(Some(Ratio(1, 2)), Some(Ratio(1, 2)), Some(Ratio(1, 2))))
      [] kind = "uniformLinear" -> GouraudCall(pa, pb, pc, AttrUniform(Null, Null, Null))
      [] kind = "uniformMixed" ->
            GouraudCall(pa, pb, pc, AttrUniform(Some(Ratio(3, 1)), Null, Some(Ratio(1, 5))))
      [] kind = "texturedSpecular" -> TexturedSpecularCall(pa, pb, pc, AttrTextured)
      [] OTHER                 -> TexturedCall(pa, pb, pc, AttrTexturedLinear)

\* the triangle (10,10), (50,10), (10,50) in half pixels
ExampleCall(kind) ==
    TriangleCall(kind, [x |-> 20, y |-> 20], [x |-> 100, y |-> 20], [x |-> 20, y |-> 100])

RasterOps ==
    {"rasterizeTriangle", "rasterizeTriangleGouraud", "rasterizeTriangleGouraudTextured"}

InitRaster ==
    /\ app = NoApplication
    /\ loop = NoRenderLoop
    /\ \/ \E kind \in RasterKinds, pa \in RasterPoints, pb \in RasterPoints,
                pc \in RasterPoints :
            /\ call = TriangleCall(kind, pa, pb, pc)
            /\ fb = Framebuffer(FbWidth, FbHeight)
       \/ \E kind \in {"flat", "linear", "texturedLinear"} :
            /\ call = ExampleCall(kind)
            /\ fb = Framebuffer(ExampleSize, ExampleSize)
    /\ ret = Pending

RasterizeTriangle ==
    /\ call.op = "rasterizeTriangle"
    /\ ~ret.done
    /\ fb' = rasterizeTriangle(fb, call.a, call.b, call.c, call.color)
    /\ ret' = Returned(ScanStores(fb, call.a, call.b, call.c,
                                  [kind |-> "flat", color |-> call.color]))
    /\ UNCHANGED <<call, app, loop>>

RasterizeTriangleGouraud ==
    /\ call.op = "rasterizeTriangleGouraud"
    /\ ~ret.done
    /\ fb' = rasterizeTriangleGouraud(fb, call.a, call.b, call.c)
    /\ ret' = Returned(ScanStores(fb, call.a, call.b, call.c, [kind |-> "gouraud"]))
    /\ UNCHANGED <<call, app, loop>>

RasterizeTriangleGouraudTextured ==
    /\ call.op = "rasterizeTriangleGouraudTextured"
    /\ ~ret.done
    /\ fb' = rasterizeTriangleGouraudTextured(fb, call.a, call.b, call.c, call.texture)
    /\ ret' = Returned(ScanStores(fb, call.a, call.b, call.c,
                                  [kind |-> "textured", texture |-> call.texture]))
    /\ UNCHANGED <<call, app, loop>>

NextRaster ==
    \/ RasterizeTriangle
    \/ RasterizeTriangleGouraud
    \/ RasterizeTriangleGouraudTextured

SpecRaster == InitRaster /\ [][NextRaster]_vars

(* Specification of the Framebuffer object: clear and putPixel in any order *)

PixWidth == 2

PixHeight == 2

PixColors == {<<10, 20, 30>>, <<255, 0, 128>>}

Black == <<0, 0, 0, 0, 0, 0>>

InitPixel ==
    /\ app = NoApplication
    /\ loop = NoRenderLoop
    /\ call = [op |-> "new Framebuffer"]
    /\ ret = Pending
    /\ fb = Framebuffer(PixWidth, PixHeight)

Clear ==
    /\ call' = [op |-> "clear", color |-> Black]
    /\ fb' = clear(fb, Black)
    /\ UNCHANGED <<ret, app, loop>>

PutPixel ==
    \E x \in -1..(2 * PixWidth), y \in -1..(2 * PixHeight), rgb \in PixColors :
        /\ call' = [op |-> "putPixel", x |-> x, y |-> y,
                    r |-> rgb[1], g |-> rgb[2], b |-> rgb[3]]
        /\ fb' = putPixel(fb, x, y, rgb[1], rgb[2], rgb[3])
        /\ UNCHANGED <<ret, app, loop>>

NextPixel == Clear \/ PutPixel

SpecPixel == InitPixel /\ [][NextPixel]_vars

(* Specification of projectSceneToFilledPolygons as a function of the scene *)

MaxObjects == 2

Polygon(color, vertexIndices) ==
    [color |-> color, vertexIndices |-> vertexIndices, textureUrl |-> Null,
     uvIndices |-> Null]

Teal == <<0, 8, 8>>

\* a corner at the origin with arms along x, y and both ways along z; its
\* polygons are triangles of both windings, a quad, an edge and a point
CornerMesh ==
    Mesh(<<Vec3(0, 0, 0), Vec3(2, 0, 0), Vec3(0, 2, 0), Vec3(0, 0, 2), Vec3(0, 0, -2)>>,
         <<Polygon(Orange, <<0, 1, 2>>), Polygon(Teal, <<0, 2, 1>>),
           Polygon(Orange, <<1, 2, 3>>), Polygon(Teal, <<2, 1, 4>>),
           Polygon(Orange, <<1, 3, 2, 4>>), Polygon(Teal, <<3, 4>>),
           Polygon(Orange, <<0>>)>>)

\* a diamond in the plane z = 0 and one of its diagonals
DiamondMesh ==
    Mesh(<<Vec3(2, 0, 0), Vec3(0, 2, 0), Vec3(-2, 0, 0), Vec3(0, -2, 0)>>,
         <<Polygon(Teal, <<0, 1, 2, 3>>), Polygon(Orange, <<0, 2>>),
           Polygon(Teal, <<3, 2, 1>>)>>)

Object3D(mesh, position, rotation, scale) ==
    [mesh |-> mesh, position |-> position, rotation |-> rotation, scale |-> scale]

Euler(x, y, z) == [x |-> x, y |-> y, z |-> z]

FirstObjects ==
    {Object3D(mesh, Vec3(p[1], 0, p[2]), Euler(0, q, 0), s) :
        mesh \in {CornerMesh, DiamondMesh},
        p \in {<<0, -3>>, <<0, -2>>, <<0, -1>>, <<1, -4>>},
        q \in 0..3,
        s \in {Vec3(1, 1, 1), Vec3(2, 1, 1)}}

SecondObjects ==
    {Object3D(DiamondMesh, Vec3(0, 0, -3), Euler(0, 0, 0), Vec3(1, 1, 1)),
     Object3D(CornerMesh, Vec3(0, 1, -4), Euler(0, 1, 0), Vec3(1, 1, 1)),
     Object3D(CornerMesh, Vec3(-1, 0, -2), Euler(1, 0, 3), Vec3(1, 2, 1))}

\* the objects after the second are copies of the diamond, one step apart
FurtherObjects(n) ==
    [i \in 1..n |->
        Object3D(DiamondMesh, Vec3(0, 0, -2 - i), Euler(0, i, 0), Vec3(1, 1, 1))]

ObjectLists ==
    {<<f>> : f \in FirstObjects}
        \cup {<<f, s>> \o FurtherObjects(n) :
                f \in FirstObjects, s \in SecondObjects, n \in 0..(MaxObjects - 2)}

SceneCameras ==
    {[position |-> Vec3(0, 0, 0), yaw |-> 0],
     [position |-> Vec3(1, 0, -1), yaw |-> 0],
     [position |-> Vec3(0, 0, -6), yaw |-> 2]}

\* new Scene(camera): no lights, the default ambient colour (0.15, 0.15, 0.2)
Scene(camera, objects) ==
    [camera |-> camera, objects |-> objects, lights |-> <<>>,
     ambientColor |-> [r |-> Ratio(3, 20), g |-> Ratio(3, 20), b |-> Ratio(1, 5)]]

\* a canvas of 4 x 3 pixels
Viewport == [width |-> 4, height |-> 3]

InitProject ==
    /\ app = NoApplication
    /\ loop = NoRenderLoop
    /\ \E objects \in ObjectLists, cam \in SceneCameras, nf \in NearFars,
          cull \in BOOLEAN, paint \in BOOLEAN :
            call = [op |-> "projectSceneToFilledPolygons",
                    scene |-> Scene([position |-> cam.position, yaw |-> cam.yaw,
                                     tanHalfFovY |-> Ratio(1, 1),
                                     near |-> nf[1], far |-> nf[2]], objects),
                    viewport |-> Viewport,
                    options |-> [applyBackFaceCulling |-> cull,
                                 applyPaintersAlgorithm |-> paint,
                                 textureMap |-> Null]]
    /\ ret = Pending
    /\ fb = NoFramebuffer

\* the caller's viewProj = projection.multiply(view)
ViewProj(camera, viewport) ==
    multiply(getProjectionMatrix(camera, Ratio(viewport.width, viewport.height)),
             getViewMatrix(camera))

ViewProjScale(camera, viewport) ==
    perspectiveScale(camera.tanHalfFovY, Ratio(viewport.width, viewport.height),
                     camera.near, camera.far)

ProjectSceneToFilledPolygons ==
    /\ call.op = "projectSceneToFilledPolygons"
    /\ ~ret.done
    /\ ret' = Returned(projectSceneToFilledPolygons(call.scene,
                    ViewProj(call.scene.camera, call.viewport),
                    ViewProjScale(call.scene.camera, call.viewport),
                    call.viewport, call.options))
    /\ UNCHANGED <<call, fb, app, loop>>

NextProject == ProjectSceneToFilledPolygons

SpecProject == InitProject /\ [][NextProject]_vars

(* Specification of the render loop *)

MaxFrames == 2

\* the camera of the render loop: at the origin, looking down -z
LoopCamera ==
    [position |-> Vec3(0, 0, 0), yaw |-> 0, tanHalfFovY |-> Ratio(1, 1),
     near |-> 1, far |-> 5]

Still == Euler(0, 0, 0)

Unit == Vec3(1, 1, 1)

LoopObjectLists ==
    {<<>>,
     <<Object3D(DiamondMesh, Vec3(0, 0, -3), Still, Unit)>>,
     <<Object3D(CornerMesh, Vec3(0, 0, -3), Still, Unit)>>,
     <<Object3D(DiamondMesh, Vec3(0, 0, -1), Still, Unit),
       Object3D(CornerMesh, Vec3(0, 0, -3), Still, Unit)>>,
     <<Object3D(CornerMesh, Vec3(0, 0, -3), Still, Unit),
       Object3D(DiamondMesh, Vec3(0, 0, -3), Still, Unit)>>}

\* main() after init() and the first requestAnimationFrame(render)
InitLoop ==
    /\ call = [op |-> "render"]
    /\ ret = Pending
    /\ fb = Framebuffer(Viewport.width, Viewport.height)
    /\ \E objects \in LoopObjectLists, paint \in BOOLEAN, cull \in BOOLEAN,
          showFps \in BOOLEAN :
            app = [scene |-> Scene(LoopCamera, objects),
                   viewport |-> Viewport,
                   lastTime |-> 0,
                   cameraState |-> [yaw |-> 0, pitch |-> 0],
                   canvas |-> Canvas(Viewport.width, Viewport.height),
                   textureMap |-> Null,
                   config |-> [applyPaintersAlgorithm |-> paint,
                               applyBackFaceCulling |-> cull],
                   debug |-> [showFps |-> showFps, showLightSources |-> FALSE]]
    /\ loop = [pc |-> "idle", raf |-> 1, frames |-> 0, now |-> 0, deltaTime |-> 0,
               o |-> 0, batches |-> <<>>, next |-> 0, events |-> <<>>]

\* the browser runs the requested callback, one second after the last
FrameStart ==
    /\ loop.pc = "idle"
    /\ loop.raf > 0
    /\ loop.frames < MaxFrames
    /\ loop' = [loop EXCEPT !.pc = renderSuccessor("idle"), !.raf = @ - 1,
                            !.frames = @ + 1, !.now = @ + 1, !.o = 0,
                            !.batches = <<>>, !.next = 0, !.events = <<>>]
    /\ UNCHANGED <<call, ret, fb, app>>

\* framebuffer.clear("#000000")
FrameClear ==
    /\ loop.pc = "clear"
    /\ fb' = clear(fb, Black)
    /\ loop' = [loop EXCEPT !.pc = renderSuccessor("clear"),
                            !.events = Append(@, Event("clear", 0))]
    /\ UNCHANGED <<call, ret, app>>

\* deltaTime, lastTime, input.updateCamera and the animation of the objects:
\* angle = (now / 1000) * (2 pi / 4) is now quarter turns, now in seconds
FrameUpdate ==
    /\ loop.pc = "update"
    /\ LET deltaTime == loop.now - app.lastTime
           updated   == updateCamera(app.cameraState.yaw, app.cameraState.pitch,
                                     app.scene.camera, deltaTime)
           angle     == loop.now
       IN  /\ app' = [app EXCEPT
                        !.lastTime = loop.now,
                        !.cameraState = [yaw |-> updated.yaw, pitch |-> updated.pitch],
                        !.scene.camera = updated.camera,
                        !.scene.objects =
                            [i \in 1..Len(@) |-> [@[i] EXCEPT !.rotation.y = angle]]]
           /\ loop' = [loop EXCEPT !.pc = renderSuccessor("update"),
                                   !.deltaTime = deltaTime]
    /\ UNCHANGED <<call, ret, fb>>

\* projectSceneToFilledPolygons: one turn of its loop over scene.objects, or
\* the end of the loop
CollectObject ==
    /\ loop.pc = "collect"
    /\ IF loop.o < Len(app.scene.objects)
       THEN loop' = [loop EXCEPT
                !.batches = objectBatches(app.scene, loop.o,
                                getViewMatrix(app.scene.camera),
                                ViewProj(app.scene.camera, app.viewport),
                                ViewProjScale(app.scene.camera, app.viewport),
                                app.viewport, RenderOptions, @),
                !.o = @ + 1,
                !.events = Append(@, Event("collect", loop.o))]
       ELSE loop' = [loop EXCEPT !.pc = renderSuccessor("collect")]
    /\ UNCHANGED <<call, ret, fb, app>>

\* projectSceneToFilledPolygons: the painter's sort and the return
FrameSort ==
    /\ loop.pc = "sort"
    /\ loop' = [loop EXCEPT !.pc = renderSuccessor("sort"),
                            !.batches = paintersSort(RenderOptions, @),
                            !.events = Append(@, Event("sort", 0))]
    /\ UNCHANGED <<call, ret, fb, app>>

\* rasterizeBatches: one turn of its loop over the batches, or the end of it
RasterizeBatch ==
    /\ loop.pc = "rasterize"
    /\ IF loop.next < Len(loop.batches)
       THEN /\ fb' = rasterizeBatch(fb, At(loop.batches, loop.next))
            /\ loop' = [loop EXCEPT !.next = @ + 1,
                                    !.events = Append(@, Event("rasterize", loop.next))]
       ELSE /\ fb' = fb
            /\ loop' = [loop EXCEPT !.pc = renderSuccessor("rasterize")]
    /\ UNCHANGED <<call, ret, app>>

\* canvas.blit(framebuffer)
Blit ==
    /\ loop.pc = "blit"
    /\ app' = [app EXCEPT !.canvas = blit(@, fb)]
    /\ loop' = [loop EXCEPT !.pc = renderSuccessor("blit"),
                            !.events = Append(@, Event("blit", 0))]
    /\ UNCHANGED <<call, ret, fb>>

\* drawDebugOverlay(...); the call made no debug segments
DrawDebugOverlay ==
    /\ loop.pc = "overlay"
    /\ app' = [app EXCEPT !.canvas = drawDebugOverlay(@, app.scene, <<>>,
                                                      loop.deltaTime, app.debug)]
    /\ loop' = [loop EXCEPT !.pc = renderSuccessor("overlay"),
                            !.events = Append(@, Event("overlay", 0))]
    /\ UNCHANGED <<call, ret, fb>>

\* requestAnimationFrame(render), the last statement
RequestAnimationFrame ==
    /\ loop.pc = "request"
    /\ loop' = [loop EXCEPT !.pc = renderSuccessor("request"), !.raf = @ + 1,
                            !.events = Append(@, Event("request", 0))]
    /\ UNCHANGED <<call, ret, fb, app>>

NextLoop ==
    \/ FrameStart
    \/ FrameClear
    \/ FrameUpdate
    \/ CollectObject
    \/ FrameSort
    \/ RasterizeBatch
    \/ Blit
    \/ DrawDebugOverlay
    \/ RequestAnimationFrame

SpecLoop == InitLoop /\ [][NextLoop]_vars

(* Specification of sampleTexture as a function: the texture is sampled at   *)
(* (u, v) and at (u + k, v + m) for whole numbers k and m                    *)

MaxShift == 2

\* a 3 x 1 texture with three different texels
Stripes ==
    [width |-> 3, height |-> 1,
     data |-> <<10, 20, 30, 255,   40, 50, 60, 255,   70, 80, 90, 255>>]

SampleTextures == {Checker, Stripes}

SampleCoords ==
    {Ratio(n, 4) : n \in {-9, -5, -4, -2, -1, 0, 1, 2, 3, 4, 5, 7}}
        \cup {Ratio(n, 3) : n \in {-2, -1, 1, 2, 4}}

Shifted(u, k) == Ratio(u.n + k * u.d, u.d)

InitSample ==
    /\ app = NoApplication
    /\ loop = NoRenderLoop
    /\ fb = NoFramebuffer
    /\ ret = Pending
    /\ \E t \in SampleTextures, u \in SampleCoords, v \in SampleCoords,
          k \in (-MaxShift)..MaxShift, m \in (-MaxShift)..MaxShift :
            call = [op |-> "sampleTexture", texture |-> t, u |-> u, v |-> v,
                    k |-> k, m |-> m]

SampleTexture ==
    /\ call.op = "sampleTexture"
    /\ ~ret.done
    /\ ret' = Returned([at      |-> sampleTexture(call.texture, call.u, call.v),
                        shifted |-> sampleTexture(call.texture, Shifted(call.u, call.k),
                                                  Shifted(call.v, call.m)),
                        index   |-> texelIndex(call.texture, Shifted(call.u, call.k),
                                               Shifted(call.v, call.m))])
    /\ UNCHANGED <<call, fb, app, loop>>

NextSample == SampleTexture

SpecSample == InitSample /\ [][NextSample]_vars

(* Specification of the lighting as a function: computeLighting and          *)
(* computeLightingDiffuseAndSpecular are applied to one vertex                *)

MaxLights == 2

Grey(q) == [r |-> q, g |-> q, b |-> q]

Light(type, direction, position, color, intensity, attenuation) ==
    [type |-> type, direction |-> direction, position |-> position, color |-> color,
     intensity |-> intensity, attenuation |-> attenuation,
     cosInner |-> One, cosOuter |-> Ratio(1, 2)]

Attenuation(constant, linear, quadratic) ==
    Some([constant |-> constant, linear |-> linear, quadratic |-> quadratic])

LitVertex == Vec3(0, 0, -3)

\* directional lights of intensity 1/2, 3 and -1, point lights without
\* attenuation, with the attenuation 1 / (1 + dist) and with an attenuation
\* whose three coefficients are 0, a point light at the vertex and two spot
\* lights with innerCone 0 and outerCone pi / 3
SampleLights ==
    {Light("directional", Vec3(0, 0, 2), Vec3(0, 0, 0), Grey(One), Ratio(1, 2), Null),
     Light("directional", Vec3(4, 0, 3), Vec3(0, 0, 0),
           [r |-> One, g |-> Ratio(1, 2), b |-> Zero], Ratio(3, 1), Null),
     Light("directional", Vec3(0, 0, 1), Vec3(0, 0, 0), Grey(One), Ratio(-1, 1), Null),
     Light("point", Vec3(0, 0, 0), Vec3(0, 0, 0), Grey(One), Ratio(1, 1), Null),
     Light("point", Vec3(0, 0, 0), Vec3(4, 0, 0), Grey(One), Ratio(2, 1),
           Attenuation(One, One, Zero)),
     Light("point", Vec3(0, 0, 0), Vec3(0, 4, -3), Grey(One), Ratio(1, 1),
           Attenuation(Zero, Zero, Zero)),
     Light("point", Vec3(0, 0, 0), LitVertex, Grey(One), Ratio(1, 1), Null),
     Light("spot", Vec3(-1, 0, 0), Vec3(4, 0, 0), Grey(One), Ratio(1, 1), Null),
     Light("spot", Vec3(0, 0, -2), Vec3(0, 0, 0), Grey(One), Ratio(1, 1),
           Attenuation(One, Zero, Zero))}

SampleNormals == {Vec3(0, 0, 1), Vec3(0, 0, 0), Vec3(3, 0, 4)}

SampleViewDirs == {Vec3(0, 0, 3), Vec3(0, 0, 0)}

SampleMaterials ==
    {[diffuse |-> [r |-> One, g |-> Ratio(1, 2), b |-> Zero],
      specular |-> Grey(Ratio(1, 2)), shininess |-> sh, emissive |-> e] :
        sh \in {0, 2}, e \in {Null, Some(Grey(Ratio(1, 4)))}}

SampleAmbients == {Grey(Ratio(3, 20)), Grey(One)}

InitLighting ==
    /\ app = NoApplication
    /\ loop = NoRenderLoop
    /\ fb = NoFramebuffer
    /\ ret = Pending
    /\ \E op \in {"computeLighting", "computeLightingDiffuseAndSpecular"},
          normal \in SampleNormals, viewDir \in SampleViewDirs,
          material \in SampleMaterials, lights \in SeqUpTo(SampleLights, MaxLights),
          ambientColor \in SampleAmbients :
            call = [op |-> op, vertexPos |-> LitVertex, normal |-> normal,
                    viewDir |-> viewDir, material |-> material, lights |-> lights,
                    ambientColor |-> ambientColor]

ComputeLighting ==
    /\ call.op = "computeLighting"
    /\ ~ret.done
    /\ ret' = Returned(computeLighting(call.vertexPos, call.normal, call.viewDir,
                            call.material, call.lights, call.ambientColor))
    /\ UNCHANGED <<call, fb, app, loop>>

ComputeLightingDiffuseAndSpecular ==
    /\ call.op = "computeLightingDiffuseAndSpecular"
    /\ ~ret.done
    /\ ret' = Returned(computeLightingDiffuseAndSpecular(call.vertexPos, call.normal,
                            call.viewDir, call.material, call.lights, call.ambientColor))
    /\ UNCHANGED <<call, fb, app, loop>>

NextLighting ==
    \/ ComputeLighting
    \/ ComputeLightingDiffuseAndSpecular

SpecLighting == InitLighting /\ [][NextLighting]_vars

(* Specification of the rendering of one lit triangle that may refer to a    *)
(* texture: projectSceneToFilledPolygons, then rasterizeBatches               *)

\* the loop of rasterizeBatches from batch i on
RECURSIVE rasterizeBatches(_, _, _)
rasterizeBatches(framebuffer, batches, i) ==
    IF i >= Len(batches) THEN framebuffer
    ELSE rasterizeBatches(rasterizeBatch(framebuffer, At(batches, i)), batches, i + 1)

White == <<15, 15, 15>>

UV(u, v) == [u |-> u, v |-> v]

\* one UV for each vertex of the triangle, in three different texels of Checker
UVTable == <<UV(Ratio(1, 4), Ratio(1, 4)), UV(Ratio(3, 4), Ratio(1, 4)),
             UV(Ratio(1, 4), Ratio(3, 4))>>

\* a triangle in the plane z = -3 that faces the camera at the origin; its
\* vertices are at the distances 3, 5 and 5 from the camera
LitTriangle(textureUrl, uvIndices, uvs, shininess) ==
    [Mesh(<<Vec3(0, 0, -3), Vec3(4, 0, -3), Vec3(0, 4, -3)>>,
          <<[color |-> Orange, vertexIndices |-> <<0, 1, 2>>,
             textureUrl |-> textureUrl, uvIndices |-> uvIndices]>>)
        EXCEPT !.uvs = uvs,
               !.material = Some([specular |-> White, shininess |-> shininess])]

\* no uvIndices, uvIndices of another length than vertexIndices, uvIndices
\* into the UV table, and uvIndices whose last index is outside the table
SampleUvIndices == {Null, Some(<<0, 1>>), Some(<<0, 1, 2>>), Some(<<0, 2, 5>>)}

SampleLightLists ==
    {<<>>,
     <<Light("directional", Vec3(0, 0, 1), Vec3(0, 0, 0), Grey(One), Ratio(1, 2), Null)>>,
     <<Light("point", Vec3(0, 0, 0), Vec3(0, 0, 0),
             [r |-> One, g |-> Ratio(1, 2), b |-> Ratio(1, 4)], Ratio(1, 2), Null)>>}

\* no texture map, a map without entries, and maps with an entry for "brick"
SampleTextureMaps ==
    {Null, Some(<<>>), Some([url \in {"brick"} |-> Checker]),
     Some([url \in {"brick"} |-> Stripes])}

TexturedScene(textureUrl, uvIndices, uvs, shininess, lights) ==
    [Scene(LoopCamera,
           <<Object3D(LitTriangle(textureUrl, uvIndices, uvs, shininess), Vec3(0, 0, 0),
                      Still, Unit)>>)
        EXCEPT !.lights = lights]

InitTextured ==
    /\ app = NoApplication
    /\ loop = [pc |-> "project"]
    /\ ret = Pending
    /\ fb = Framebuffer(Viewport.width, Viewport.height)
    /\ \E textureUrl \in {Null, Some("brick")}, uvIndices \in SampleUvIndices,
          uvs \in {<<>>, UVTable}, shininess \in {1, 2}, lights \in SampleLightLists,
          textureMap \in SampleTextureMaps :
            call = [op |-> "render",
                    scene |-> TexturedScene(textureUrl, uvIndices, uvs, shininess, lights),
                    viewport |-> Viewport,
                    options |-> [applyBackFaceCulling |-> TRUE,
                                 applyPaintersAlgorithm |-> TRUE,
                                 textureMap |-> textureMap]]

\* what projectSceneToFilledPolygons returns for the scene of a call
ProjectedScene(scene, viewport, options) ==
    projectSceneToFilledPolygons(scene, ViewProj(scene.camera, viewport),
        ViewProjScale(scene.camera, viewport), viewport, options)

ProjectTextured ==
    /\ loop.pc = "project"
    /\ ret' = Returned(ProjectedScene(call.scene, call.viewport, call.options))
    /\ loop' = [pc |-> "rasterize"]
    /\ UNCHANGED <<call, fb, app>>

RasterizeBatches ==
    /\ loop.pc = "rasterize"
    /\ fb' = rasterizeBatches(fb, ret.val.batches, 0)
    /\ loop' = [pc |-> "drawn"]
    /\ UNCHANGED <<call, ret, app>>

NextTextured ==
    \/ ProjectTextured
    \/ RasterizeBatches

SpecTextured == InitTextured /\ [][NextTextured]_vars

(* Specification of the lighting inputs of one triangle: its mesh has vertex *)
(* normals or none, and its object is scaled, mirrored or flattened          *)

\* a triangle in the plane z = -2 that faces the camera at the origin, and the
\* same triangle wound the other way; its vertices are at the distance 3
\* from the camera, and three times its centroid, (-3, -2, -6), at the
\* distance 7
Facet(vertexNormals) ==
    [Mesh(<<Vec3(-2, -1, -2), Vec3(1, -2, -2), Vec3(-2, 1, -2)>>,
          <<Polygon(Orange, <<0, 1, 2>>), Polygon(Teal, <<0, 2, 1>>)>>)
        EXCEPT !.vertexNormals = vertexNormals,
               !.material = Some([specular |-> White, shininess |-> 1])]

\* no vertex normals, the normal of the plane at every vertex, and a
\* different normal at every vertex
SampleVertexNormals ==
    {<<>>,
     <<Vec3(0, 0, 1), Vec3(0, 0, 1), Vec3(0, 0, 1)>>,
     <<Vec3(0, 0, 1), Vec3(0, 1, 0), Vec3(1, 0, 0)>>}

\* scales that keep, double, turn and mirror the triangle, and scales whose
\* model matrix is singular
SampleScales ==
    {Vec3(1, 1, 1), Vec3(2, 2, 2), Vec3(-1, -1, 1), Vec3(-1, 1, 1),
     Vec3(0, 0, 1), Vec3(1, 1, 0), Vec3(0, 0, 0)}

FacetLightLists ==
    SampleLightLists
        \cup {<<Light("directional", Vec3(4, 0, 3), Vec3(0, 0, 0), Grey(One), One, Null)>>}

InitNormals ==
    /\ app = NoApplication
    /\ loop = NoRenderLoop
    /\ fb = NoFramebuffer
    /\ ret = Pending
    /\ \E op \in {"transformNormalsToCameraSpace", "projectSceneToFilledPolygons"},
          vertexNormals \in SampleVertexNormals, scale \in SampleScales,
          turn \in {0, 1}, lights \in FacetLightLists, cull \in BOOLEAN,
          debug \in BOOLEAN :
            call = [op |-> op,
                    scene |-> [Scene(LoopCamera,
                                  <<Object3D(Facet(vertexNormals), Vec3(0, 0, 0),
                                             Euler(0, 0, turn), scale)>>)
                                EXCEPT !.lights = lights],
                    viewport |-> Viewport,
                    options |-> [applyBackFaceCulling |-> cull,
                                 applyPaintersAlgorithm |-> TRUE,
                                 textureMap |-> Null,
                                 debugShowDirection |-> debug]]

\* view * model of object o of the scene
ViewModel(scene, o) ==
    multiply(getViewMatrix(scene.camera), getModelMatrix(At(scene.objects, o)))

TransformNormalsToCameraSpace ==
    /\ call.op = "transformNormalsToCameraSpace"
    /\ ~ret.done
    /\ ret' = Returned(transformNormalsToCameraSpace(At(call.scene.objects, 0).mesh,
                                                     ViewModel(call.scene, 0)))
    /\ UNCHANGED <<call, fb, app, loop>>

ProjectFacet ==
    /\ call.op = "projectSceneToFilledPolygons"
    /\ ~ret.done
    /\ ret' = Returned(ProjectedScene(call.scene, call.viewport, call.options))
    /\ UNCHANGED <<call, fb, app, loop>>

NextNormals ==
    \/ TransformNormalsToCameraSpace
    \/ ProjectFacet

SpecNormals == InitNormals /\ [][NextNormals]_vars

(* Specification of the Scene object: add, remove and clear in any order *)

MaxSceneObjects == 3

\* this._objects.push(object)
sceneAdd(objects, object) == Append(objects, object)

\* this._objects.indexOf(object): the search from position i on
RECURSIVE indexOf(_, _, _)
indexOf(objects, object, i) ==
    IF i >= Len(objects) THEN -1
    ELSE IF At(objects, i) = object THEN i
    ELSE indexOf(objects, object, i + 1)

\* this._objects.splice(i, 1)
splice1(objects, i) == SubSeq(objects, 1, i) \o SubSeq(objects, i + 2, Len(objects))

\* remove(object): the list afterwards and the value returned
sceneRemoveAt(objects, i) ==
    IF i = -1 THEN [objects |-> objects, returns |-> FALSE]
    ELSE [objects |-> splice1(objects, i), returns |-> TRUE]

\* mutant: the last occurrence is removed
sceneRemove_lastOccurrence(objects, object) ==
    sceneRemoveAt(objects,
        IF \A k \in 1..Len(objects) : objects[k] # object THEN -1
        ELSE SetMax({k \in 1..Len(objects) : objects[k] = object}) - 1)

sceneRemove(objects, object) == sceneRemoveAt(objects, indexOf(objects, object, 0))

\* this._objects.length = 0
sceneClear(objects) == <<>>

\* The objects that the calls pass: an Object3D is compared by reference, and
\* the model has one reference for each of these objects.
SceneObjects ==
    {Object3D(DiamondMesh, Vec3(0, 0, -3), Still, Unit),
     Object3D(CornerMesh, Vec3(0, 0, -3), Still, Unit),
     Object3D(CornerMesh, Vec3(1, 0, -4), Still, Unit)}

\* new Scene(camera)
InitScene ==
    /\ app = [scene |-> Some(Scene(LoopCamera, <<>>))]
    /\ loop = NoRenderLoop
    /\ fb = NoFramebuffer
    /\ call = [op |-> "new Scene"]
    /\ ret = Pending

SceneOf(a) == Val(a.scene)

SceneAdd ==
    \E object \in SceneObjects :
        /\ Len(SceneOf(app).objects) < MaxSceneObjects
        /\ call' = [op |-> "add", object |-> object]
        /\ app' = [app EXCEPT !.scene[1].objects = sceneAdd(@, object)]
        /\ ret' = Pending
        /\ UNCHANGED <<fb, loop>>

SceneRemove ==
    \E object \in SceneObjects :
        /\ call' = [op |-> "remove", object |-> object]
        /\ app' = [app EXCEPT !.scene[1].objects = sceneRemove(@, object).objects]
        /\ ret' = Returned(sceneRemove(SceneOf(app).objects, object).returns)
        /\ UNCHANGED <<fb, loop>>

SceneClear ==
    /\ call' = [op |-> "clear"]
    /\ app' = [app EXCEPT !.scene[1].objects = sceneClear(@)]
    /\ ret' = Pending
    /\ UNCHANGED <<fb, loop>>

NextScene ==
    \/ SceneAdd
    \/ SceneRemove
    \/ SceneClear

SpecScene == InitScene /\ [][NextScene]_vars

(* Specification of the culling of one object that is scaled by whole       *)
(* factors, negative ones included                                           *)

\* scales with equal and with different factors, positive, negative and mixed
CullScales ==
    {Vec3(1, 1, 1), Vec3(2, 2, 2), Vec3(-1, -1, -1), Vec3(-2, -2, -2),
     Vec3(1, -2, 1), Vec3(-1, 2, 1), Vec3(2, 1, -1)}

CullPositions == {Vec3(0, 0, -3), Vec3(0, 0, -2), Vec3(3, 0, -3), Vec3(0, 0, -8)}

InitCull ==
    /\ app = NoApplication
    /\ loop = NoRenderLoop
    /\ fb = NoFramebuffer
    /\ ret = Pending
    /\ \E mesh \in {CornerMesh, DiamondMesh}, position \in CullPositions,
          scale \in CullScales, turn \in 0..1, cull \in BOOLEAN :
            call = [op |-> "projectSceneToFilledPolygons",
                    scene |-> Scene(LoopCamera,
                                <<Object3D(mesh, position, Euler(0, turn, 0), scale)>>),
                    viewport |-> Viewport,
                    options |-> [applyBackFaceCulling |-> cull,
                                 applyPaintersAlgorithm |-> TRUE,
                                 textureMap |-> Null]]

ProjectScaled ==
    /\ call.op = "projectSceneToFilledPolygons"
    /\ ~ret.done
    /\ ret' = Returned(ProjectedScene(call.scene, call.viewport, call.options))
    /\ UNCHANGED <<call, fb, app, loop>>

NextCull == ProjectScaled

SpecCull == InitCull /\ [][NextCull]_vars

(* Specification of the drawing of a list of batches: the framebuffer is    *)
(* cleared, the batches are sorted when the options say so, and              *)
(* rasterizeBatches draws them                                               *)

MaxPainted == 3

PaintDepths == {-5, -4, -3}

ScreenPoint(x, y) == [x |-> Ratio(x, 1), y |-> Ratio(y, 1)]

HalfPoint(x, y) == [x |-> Ratio(x, 2), y |-> Ratio(y, 2)]

\* the vertex lists of the batches: a triangle over the left of the
\* framebuffer, a triangle over its right whose colours differ from vertex to
\* vertex, a triangle without area along the centres of the first row of
\* pixels, and a segment
PaintShapes ==
    << <<GouraudVertex(ScreenPoint(0, 0), <<255, 136, 0>>, Some(One), NoUV),
         GouraudVertex(ScreenPoint(3, 0), <<255, 136, 0>>, Some(One), NoUV),
         GouraudVertex(ScreenPoint(0, 3), <<255, 136, 0>>, Some(One), NoUV)>>,
       <<GouraudVertex(ScreenPoint(1, 0), <<0, 136, 136>>, Some(One), NoUV),
         GouraudVertex(ScreenPoint(4, 0), <<0, 255, 0>>, Some(Ratio(1, 2)), NoUV),
         GouraudVertex(ScreenPoint(4, 3), <<0, 0, 255>>, Some(Ratio(1, 3)), NoUV),
         GouraudVertex(ScreenPoint(0, 3), <<255, 255, 255>>, Some(One), NoUV)>>,
       <<GouraudVertex(HalfPoint(0, 1), <<200, 0, 0>>, Some(One), NoUV),
         GouraudVertex(HalfPoint(4, 1), <<200, 0, 0>>, Some(One), NoUV),
         GouraudVertex(HalfPoint(8, 1), <<200, 0, 0>>, Some(One), NoUV)>>,
       <<GouraudVertex(ScreenPoint(0, 0), <<200, 0, 0>>, Some(One), NoUV),
         GouraudVertex(ScreenPoint(4, 3), <<200, 0, 0>>, Some(One), NoUV)>> >>

\* batches as projectSceneToFilledPolygons pushes them: batchIndex = position
PaintedBatches ==
    {[k \in 1..Len(ks) |-> [vertices |-> PaintShapes[ks[k][1]], depth |-> ks[k][2],
                            texture |-> Null, batchIndex |-> k - 1]] :
        ks \in SeqUpTo((1..Len(PaintShapes)) \X PaintDepths, MaxPainted)}

ClearColors == {Black, <<1, 2, 3>>}

InitPaint ==
    /\ app = NoApplication
    /\ ret = Pending
    /\ fb = Framebuffer(FbWidth, FbHeight)
    /\ \E batches \in PaintedBatches, paint \in BOOLEAN, color \in ClearColors :
            call = [op |-> "rasterizeBatches", emitted |-> batches, clearColor |-> color,
                    options |-> [applyPaintersAlgorithm |-> paint]]
    /\ loop = [pc |-> "clear", batches |-> <<>>]

\* framebuffer.clear(color)
PaintClear ==
    /\ call.op = "rasterizeBatches"
    /\ loop.pc = "clear"
    /\ fb' = clear(fb, call.clearColor)
    /\ loop' = [loop EXCEPT !.pc = "sort"]
    /\ UNCHANGED <<call, ret, app>>

\* the end of projectSceneToFilledPolygons: the batches it returns
PaintSort ==
    /\ call.op = "rasterizeBatches"
    /\ loop.pc = "sort"
    /\ loop' = [pc |-> "rasterize", batches |-> paintersSort(call.options, call.emitted)]
    /\ UNCHANGED <<call, ret, fb, app>>

\* rasterizeBatches(framebuffer, batches)
PaintRasterize ==
    /\ call.op = "rasterizeBatches"
    /\ loop.pc = "rasterize"
    /\ fb' = rasterizeBatches(fb, loop.batches, 0)
    /\ loop' = [loop EXCEPT !.pc = "drawn"]
    /\ UNCHANGED <<call, ret, app>>

NextPaint ==
    \/ PaintClear
    \/ PaintSort
    \/ PaintRasterize

SpecPaint == InitPaint /\ [][NextPaint]_vars

(* Specification of the keyboard control of the camera: keys go down and up *)
(* and the render callback calls updateCamera                                *)

MaxUpdates == 2

MaxHeld == 2

Keys == {"ArrowLeft", "ArrowRight", "ArrowUp", "ArrowDown", "w", "S", "a", "D"}

\* seconds between two frames, in half seconds
DeltaTimes == {0, 3}

\* index.ts: yaw = 0, pitch = -20 degrees, the camera at (0, 4, 10)
InitInput ==
    /\ call = [op |-> "new InputController"]
    /\ ret = Pending
    /\ fb = NoFramebuffer
    /\ loop = NoRenderLoop
    /\ app = [scene |-> Null,
              keys |-> {},
              cameraState |-> [yaw |-> 0, pitch |-> -20],
              camera |-> [position |-> Vec3(0, 4000, 10000),
                          orientation |-> fromEuler(0, -20, 0)],
              updates |-> 0]

KeyDown ==
    /\ "keys" \in DOMAIN app
    /\ \E key \in Keys :
        /\ Cardinality(keysAdd(app.keys, key)) <= MaxHeld
        /\ app' = [app EXCEPT !.keys = keysAdd(@, key)]
        /\ call' = [op |-> "keydown", key |-> key]
    /\ ret' = Pending
    /\ UNCHANGED <<fb, loop>>

KeyUp ==
    /\ "keys" \in DOMAIN app
    /\ \E key \in Keys :
        /\ app' = [app EXCEPT !.keys = keysDelete(@, key)]
        /\ call' = [op |-> "keyup", key |-> key]
    /\ ret' = Pending
    /\ UNCHANGED <<fb, loop>>

\* render: updated = input.updateCamera(yaw, pitch, camera, deltaTime);
\* yaw = updated.yaw; pitch = updated.pitch
UpdateCamera ==
    /\ "keys" \in DOMAIN app
    /\ app.updates < MaxUpdates
    /\ \E deltaTime \in DeltaTimes :
        /\ call' = [op |-> "updateCamera", yaw |-> app.cameraState.yaw,
                    pitch |-> app.cameraState.pitch, position |-> app.camera.position,
                    deltaTime |-> deltaTime]
        /\ ret' = Returned([yaw |-> updateCameraKeys(app.keys, app.cameraState.yaw,
                                        app.cameraState.pitch, app.camera, deltaTime).yaw,
                            pitch |-> updateCameraKeys(app.keys, app.cameraState.yaw,
                                        app.cameraState.pitch, app.camera, deltaTime).pitch])
        /\ app' = [app EXCEPT
                !.cameraState = ret'.val,
                !.camera = updateCameraKeys(app.keys, app.cameraState.yaw,
                               app.cameraState.pitch, app.camera, deltaTime).camera,
                !.updates = @ + 1]
    /\ UNCHANGED <<fb, loop>>

NextInput ==
    \/ KeyDown
    \/ KeyUp
    \/ UpdateCamera

SpecInput == InitInput /\ [][NextInput]_vars

----------------------------------------------------------------------------
(* C1 *)

Sorted == ret.val

----------------------------------------------------------------------------
(* C4 *)

\* C4: isBackFacing returns true exactly when the polygon has at least 3
\* indices, the cross product (v1-v0) x (v2-v0) is not the zero vector and
\* dot(v0, normal) >= 0; the triangle (0,0,-5),(1,0,-5),(0,1,-5) is
\* front-facing and with reversed winding it is back-facing.
C4_BackFacingIff ==
    (call.op = "isBackFacing" /\ ret.done) =>
        LET ix == call.vertexIndices
            vs == call.cameraSpaceVertices
            v0 == At(vs, At(ix, 0))
            n  == cross(sub(At(vs, At(ix, 1)), v0), sub(At(vs, At(ix, 2)), v0))
            example == <<Vec3(0, 0, -5), Vec3(1, 0, -5), Vec3(0, 1, -5)>>
        IN  /\ ret.val = (/\ Len(ix) >= 3
                          /\ n # Vec3(0, 0, 0)
                          /\ dot(v0, n) >= 0)
            /\ (vs = example /\ ix = <<0, 1, 2>>) => ret.val = FALSE
            /\ (vs = example /\ ix \in {<<0, 2, 1>>, <<2, 1, 0>>}) => ret.val = TRUE

\* a triangle whose plane passes through the camera (dot = 0) is culled
C4_Witness ==
    /\ call.op = "isBackFacing" /\ ret.done
    /\ Len(call.vertexIndices) = 3
    /\ ret.val = TRUE
    /\ LET vs == call.cameraSpaceVertices
           ix == call.vertexIndices
           v0 == At(vs, At(ix, 0))
       IN  dot(v0, cross(sub(At(vs, At(ix, 1)), v0), sub(At(vs, At(ix, 2)), v0))) = 0

----------------------------------------------------------------------------
(* C6, C7 *)

\* the sphere centre in camera space: the camera sits at camera.position and
\* is turned by camera.yaw quarter turns about the Y axis
CameraSpaceCenter ==
    LET d == sub(call.worldCenter, call.camera.position)
        q == call.camera.yaw
    IN  Vec3(CosQ(q) * d.x - SinQ(q) * d.z, d.y, SinQ(q) * d.x + CosQ(q) * d.z)

\* C6: isSphereInFrustum returns false for every sphere entirely beyond the
\* far plane (cz + radius < -far) and for every sphere entirely in front of
\* the near plane (cz - radius > -near), whatever x, y, fovY and aspect.
C6_NearFarReject ==
    (call.op = "isSphereInFrustum" /\ ret.done) =>
        LET cz == CameraSpaceCenter.z
        IN  (\/ cz + call.worldRadius < -call.far
             \/ cz - call.worldRadius > -call.near) => ret.val = FALSE

\* a sphere on the view axis, inside every side plane, but beyond the far plane
C6_Witness ==
    /\ call.op = "isSphereInFrustum" /\ ret.done
    /\ CameraSpaceCenter.x = 0 /\ CameraSpaceCenter.y = 0
    /\ call.worldRadius > 0
    /\ CameraSpaceCenter.z + call.worldRadius < -call.far
    /\ ret.val = FALSE

\* the sphere contains the camera-space point (0, 0, -near)
ContainsNearPoint ==
    LET c == CameraSpaceCenter
    IN  /\ call.worldRadius >= 0
        /\ c.x * c.x + c.y * c.y + (c.z + call.near) * (c.z + call.near)
             <= call.worldRadius * call.worldRadius

\* C7: isSphereInFrustum returns true for every sphere of radius >= 0 that
\* contains the point (0, 0, -near) of the view axis, for every fovY in
\* (0, pi), aspect > 0 and 0 < near < far.
C7_NearPointVisible ==
    (call.op = "isSphereInFrustum" /\ ret.done /\ ContainsNearPoint) => ret.val = TRUE

\* such a sphere whose centre lies off the axis and in front of the near plane
C7_Witness ==
    /\ call.op = "isSphereInFrustum" /\ ret.done /\ ContainsNearPoint
    /\ CameraSpaceCenter.x # 0
    /\ CameraSpaceCenter.z > -call.near
    /\ ret.val = TRUE

----------------------------------------------------------------------------
(* C8, C9 *)

IsRasterCall == call.op \in RasterOps

\* twice the signed area of the triangle p, q, r
Orient(p, q, r) == (q.x - p.x) * (r.y - p.y) - (q.y - p.y) * (r.x - p.x)

\* the centre of pixel (px, py) lies in the closed triangle a, b, c: it is on
\* the same side of (or on) each of the three edges, which for a triangle of
\* non-zero area says that its three barycentric weights are in [0, 1]
CentreInTriangle(a, b, c, px, py) ==
    LET P  == [x |-> PixelCentre(px), y |-> PixelCentre(py)]
        o1 == Orient(a, b, P)
        o2 == Orient(b, c, P)
        o3 == Orient(c, a, P)
    IN  \/ o1 >= 0 /\ o2 >= 0 /\ o3 >= 0
        \/ o1 <= 0 /\ o2 <= 0 /\ o3 <= 0

\* the framebuffer was fresh (alpha 0 everywhere) before the call, so a pixel
\* has been written exactly when its alpha byte is 255
Written(px, py) == At(fb.data, (py * fb.width + px) * 4 + 3) = 255

\* C8: for a non-degenerate triangle each rasterizer writes pixel (px, py) of
\* the framebuffer if and only if the centre (px + 0.5, py + 0.5) has its three
\* barycentric weights in [0, 1], edges included; for the triangle (10,10),
\* (50,10), (10,50) pixel (15,15) is written and pixel (5,5) is not.
C8_CoverageIff ==
    (IsRasterCall /\ ret.done /\ Orient(call.a, call.b, call.c) # 0) =>
        /\ \A px \in 0..(fb.width - 1), py \in 0..(fb.height - 1) :
              Written(px, py) <=> CentreInTriangle(call.a, call.b, call.c, px, py)
        /\ fb.width = ExampleSize => (Written(15, 15) /\ ~Written(5, 5))

\* a triangle that sticks out of the framebuffer, has a pixel centre exactly
\* on an edge, and leaves some pixel unwritten
C8_Witness ==
    /\ IsRasterCall /\ ret.done /\ Orient(call.a, call.b, call.c) # 0
    /\ fb.width = FbWidth
    /\ call.a.x < 0
    /\ \E px \in 0..(fb.width - 1), py \in 0..(fb.height - 1) :
          /\ Written(px, py)
          /\ Orient(call.a, call.b, [x |-> PixelCentre(px), y |-> PixelCentre(py)]) = 0
    /\ \E px \in 0..(fb.width - 1), py \in 0..(fb.height - 1) : ~Written(px, py)

\* C9: a degenerate triangle (edge determinant below the tolerance: collinear
\* or coincident vertices) makes each rasterizer return without writing any
\* pixel; the framebuffer is unchanged.
C9_DegenerateDrawsNothing ==
    (IsRasterCall /\ ret.done /\ Orient(call.a, call.b, call.c) = 0) =>
        fb = Framebuffer(fb.width, fb.height)

\* three different collinear vertices whose segment passes through the centre
\* of a pixel of the framebuffer
C9_Witness ==
    /\ IsRasterCall /\ ret.done /\ Orient(call.a, call.b, call.c) = 0
    /\ call.a # call.b /\ call.b # call.c /\ call.a # call.c
    /\ \E px \in 0..(fb.width - 1), py \in 0..(fb.height - 1) :
          LET P == [x |-> PixelCentre(px), y |-> PixelCentre(py)]
          IN  /\ Orient(call.a, call.b, P) = 0
              /\ Min3(call.a.x, call.b.x, call.c.x) <= P.x
              /\ P.x <= Max3(call.a.x, call.b.x, call.c.x)
    /\ fb = Framebuffer(fb.width, fb.height)

----------------------------------------------------------------------------
(* C10 *)

\* the effect claimed for one putPixel(x, y, r, g, b) step
PutPixelEffect ==
    call'.op = "putPixel" =>
        LET ix == Floor2(call'.x)
            iy == Floor2(call'.y)
            first == (iy * fb.width + ix) * 4
        IN  /\ fb'.width = fb.width /\ fb'.height = fb.height
            /\ DOMAIN fb'.data = DOMAIN fb.data
            /\ IF ix \in 0..(fb.width - 1) /\ iy \in 0..(fb.height - 1)
               THEN \A i \in 0..(Len(fb.data) - 1) :
                        At(fb'.data, i) =
                            CASE i = first     -> call'.r
                              [] i = first + 1 -> call'.g
                              [] i = first + 2 -> call'.b
                              [] i = first + 3 -> 255
                              [] OTHER         -> At(fb.data, i)
               ELSE fb'.data = fb.data

\* C10: putPixel(x, y, r, g, b) is a no-op when floor(x) or floor(y) is outside
\* the framebuffer (no byte changes); in range it sets exactly the four bytes
\* of that pixel to r, g, b, 255 and changes no other pixel.
C10_PutPixel == [][PutPixelEffect]_vars

\* an out-of-range putPixel (x = -0.5, y in range) returned on a framebuffer
\* that already holds a drawn pixel
C10_Witness ==
    /\ call.op = "putPixel"
    /\ call.x = -1 /\ call.y \in 0..(2 * fb.height - 1)
    /\ \E i \in 0..(Len(fb.data) - 1) : i % 4 = 0 /\ At(fb.data, i) \in {10, 255}

----------------------------------------------------------------------------
(* C3, C5: the batches of projectSceneToFilledPolygons *)

ProjectReturned == call.op = "projectSceneToFilledPolygons" /\ ret.done

Batches == ret.val.batches

\* the polygon a batch was built from, and the mesh vertices it lists
BatchObject(batch) == At(call.scene.objects, batch.polygon[1])

BatchIndices(batch) ==
    At(BatchObject(batch).mesh.polygons, batch.polygon[2]).vertexIndices

\* what projectPoint returns for each of the vertices under the matrix mvp
ProjectAll(vertices, mvp) ==
    [i \in 1..Len(vertices) |->
        projectPoint(vertices[i], mvp,
                     ViewProjScale(call.scene.camera, call.viewport), call.viewport)]

PointsOf(object) ==
    ProjectAll(object.mesh.vertices,
               multiply(ViewProj(call.scene.camera, call.viewport),
                        getModelMatrix(object)))

\* clip-space w = 0 (projectPoint returns null) or classified behind-camera
Unprojectable(points, i) == IsNull(At(points, i)) \/ Val(At(points, i)).behind

\* no batch for a polygon of object number o that has an unprojectable vertex
RejectedWhole(o, polygons, points) ==
    \A k \in 0..(Len(polygons) - 1) :
        (\E m \in 1..Len(At(polygons, k).vertexIndices) :
                Unprojectable(points, At(polygons, k).vertexIndices[m]))
            => ~\E j \in 1..Len(Batches) : Batches[j].polygon = <<o, k>>

\* one vertex per polygon index, in polygon order, at its screen position
EmittedWhole(batch, indices, points) ==
    /\ Len(batch.vertices) = Len(indices)
    /\ \A m \in 1..Len(indices) :
            /\ ~Unprojectable(points, indices[m])
            /\ batch.vertices[m].x = Val(At(points, indices[m])).x
            /\ batch.vertices[m].y = Val(At(points, indices[m])).y

\* C3: a polygon is emitted all-or-nothing.  A polygon with a vertex whose
\* clip-space w is 0 or that projectPoint classifies behind-camera has no
\* batch; every emitted batch has exactly one vertex per index of its
\* polygon, in polygon order, at the screen position of that mesh vertex;
\* and no polygon has two batches.
C3_AllOrNothing ==
    ProjectReturned =>
        /\ \A o \in 0..(Len(call.scene.objects) - 1) :
             RejectedWhole(o, At(call.scene.objects, o).mesh.polygons,
                           PointsOf(At(call.scene.objects, o)))
        /\ \A j \in 1..Len(Batches) :
             EmittedWhole(Batches[j], BatchIndices(Batches[j]),
                          PointsOf(BatchObject(Batches[j])))
        /\ \A i, j \in 1..Len(Batches) :
             Batches[i].polygon = Batches[j].polygon => i = j

\* some and not all of the vertices are unprojectable
PartlyProjectable(indices, points) ==
    /\ Len(indices) >= 3
    /\ \E m \in 1..Len(indices) : Unprojectable(points, indices[m])
    /\ \E m \in 1..Len(indices) : ~Unprojectable(points, indices[m])

\* Back-face culling off: a polygon of three or more vertices of which some
\* project and some do not was rejected while its object passed the frustum
\* test (another polygon of the object was emitted), and a batch of four
\* vertices was emitted.
C3_Witness ==
    /\ ProjectReturned
    /\ ~call.options.applyBackFaceCulling
    /\ \E j \in 1..Len(Batches) :
         \E k \in 0..(Len(BatchObject(Batches[j]).mesh.polygons) - 1) :
            /\ PartlyProjectable(
                    At(BatchObject(Batches[j]).mesh.polygons, k).vertexIndices,
                    PointsOf(BatchObject(Batches[j])))
            /\ ~\E i \in 1..Len(Batches) :
                    Batches[i].polygon = <<Batches[j].polygon[1], k>>
    /\ \E j \in 1..Len(Batches) : Len(Batches[j].vertices) = 4

\* camera-space z of each vertex under the matrix viewModel
CameraZAll(vertices, viewModel) ==
    [i \in 1..Len(vertices) |->
        transformVec4(viewModel, Vec4(vertices[i].x, vertices[i].y, vertices[i].z, 1)).z]

CameraZOf(object) ==
    CameraZAll(object.mesh.vertices,
               multiply(getViewMatrix(call.scene.camera), getModelMatrix(object)))

DepthIsMin(depth, indices, zs) ==
    /\ \A m \in 1..Len(indices) : depth <= At(zs, indices[m])
    /\ \E m \in 1..Len(indices) : depth = At(zs, indices[m])

\* C5: the depth key of every emitted batch is the minimum camera-space z
\* over the vertices of its polygon: depth <= z of each polygon vertex and
\* depth = z of at least one polygon vertex.
C5_DepthIsMinZ ==
    ProjectReturned =>
        \A j \in 1..Len(Batches) :
            DepthIsMin(Batches[j].depth, BatchIndices(Batches[j]),
                       CameraZOf(BatchObject(Batches[j])))

FirstNotFarthest(depth, indices, zs) ==
    /\ Len(indices) >= 3
    /\ depth < At(zs, indices[1])
    /\ depth = At(zs, indices[2])

\* a batch of three or more vertices whose first vertex is not the farthest:
\* the key is below the z of the first vertex, so also below the average
C5_Witness ==
    /\ ProjectReturned
    /\ \E j \in 1..Len(Batches) :
         FirstNotFarthest(Batches[j].depth, BatchIndices(Batches[j]),
                          CameraZOf(BatchObject(Batches[j])))

----------------------------------------------------------------------------
(* C2: the phases of a frame *)

IsPrefix(s, t) == Len(s) <= Len(t) /\ \A i \in 1..Len(s) : s[i] = t[i]

\* the history of a whole frame over n objects that yields m batches
FrameOrder(n, m) ==
    <<Event("clear", 0)>>
        \o [i \in 1..n |-> Event("collect", i - 1)]
        \o <<Event("sort", 0)>>
        \o [j \in 1..m |-> Event("rasterize", j - 1)]
        \o <<Event("blit", 0), Event("overlay", 0), Event("request", 0)>>

Running == loop.pc # "idle"

\* C2: in every frame the clear comes first, then the batches of all
\* objects are collected and sorted, then the batches are rasterized from the
\* first to the last, then blit, overlay and the request of the next frame:
\* the history of the frame is at all times a prefix of that order.  While a
\* frame runs no other is requested, and there is never more than one
\* request: two frames do not overlap.
C2_PhaseOrder ==
    /\ IsPrefix(loop.events, FrameOrder(Len(app.scene.objects), Len(loop.batches)))
    /\ loop.raf + (IF Running THEN 1 ELSE 0) <= 1

\* the second frame has run to its end over two objects: the sort changed
\* the order of the batches, two or more were rasterized and left pixels
\* that are not black, and the next frame is requested
C2_Witness ==
    /\ loop.frames = 2
    /\ ~Running
    /\ loop.raf = 1
    /\ Len(app.scene.objects) = 2
    /\ Len(loop.batches) >= 2
    /\ loop.events = FrameOrder(2, Len(loop.batches))
    /\ \E j \in 1..Len(loop.batches) : loop.batches[j].batchIndex # j - 1
    /\ \E i \in 1..Len(fb.data) : fb.data[i] \notin {0, 255}
    /\ app.canvas.image = fb.data

----------------------------------------------------------------------------
(* C11 *)

Stores == ret.val

\* C11: every store issued by rasterizeTriangle, rasterizeTriangleGouraud and
\* rasterizeTriangleGouraudTextured, also for a triangle with vertices outside
\* the framebuffer, is at a pixel with 0 <= px < width and 0 <= py < height;
\* the written pixels of the framebuffer are exactly the pixels stored at.
C11_StoresInBounds ==
    (IsRasterCall /\ ret.done) =>
        /\ \A s \in Stores : /\ 0 <= s[1] /\ s[1] < fb.width
                             /\ 0 <= s[2] /\ s[2] < fb.height
        /\ \A px \in 0..(fb.width - 1), py \in 0..(fb.height - 1) :
              Written(px, py) <=> <<px, py>> \in Stores

\* a triangle with vertices beyond the left, right and bottom borders that
\* stores at both ends of a row and in the last row
C11_Witness ==
    /\ IsRasterCall /\ ret.done /\ fb.width = FbWidth
    /\ Min3(call.a.x, call.b.x, call.c.x) < 0
    /\ Max3(call.a.x, call.b.x, call.c.x) > 2 * fb.width
    /\ Max3(call.a.y, call.b.y, call.c.y) > 2 * fb.height
    /\ \E py \in 0..(fb.height - 1) :
          <<0, py>> \in Stores /\ <<fb.width - 1, py>> \in Stores
    /\ \E px \in 0..(fb.width - 1) : <<px, fb.height - 1>> \in Stores

----------------------------------------------------------------------------
(* C12, C13: which interpolation the Gouraud rasterizers use *)

IsGouraudCall ==
    call.op \in {"rasterizeTriangleGouraud", "rasterizeTriangleGouraudTextured"}

AllCarryInvW ==
    ~IsNull(call.a.invW) /\ ~IsNull(call.b.invW) /\ ~IsNull(call.c.invW)

\* the colour in the framebuffer at pixel (px, py)
PixelAt(px, py) ==
    LET i == (py * fb.width + px) * 4
    IN  <<At(fb.data, i), At(fb.data, i + 1), At(fb.data, i + 2)>>

\* The barycentric weights of the centre of pixel (px, py) for the triangle of
\* the call, as areas of the three sub-triangles: numerators wa, wb, wc over
\* the common denominator d > 0.
AreaWeights(px, py) ==
    LET P  == [x |-> PixelCentre(px), y |-> PixelCentre(py)]
        D  == Orient(call.a, call.b, call.c)
        sg == IF D < 0 THEN -1 ELSE 1
    IN  [wa |-> sg * Orient(P, call.b, call.c),
         wb |-> sg * Orient(call.a, P, call.c),
         wc |-> sg * Orient(call.a, call.b, P),
         d  |-> sg * D]

\* the barycentric interpolation of invW at the pixel, times the positive
\* number d * a.invW.d * b.invW.d * c.invW.d
InterpolatedInvW(px, py) ==
    LET w  == AreaWeights(px, py)
        ia == Val(call.a.invW)
        ib == Val(call.b.invW)
        ic == Val(call.c.invW)
    IN  w.wa * ia.n * ib.d * ic.d + w.wb * ib.n * ia.d * ic.d + w.wc * ic.n * ia.d * ib.d

\* the weights of the three vertices in an interpolated attribute: weight
\* times invW when perspective-correct, the weight alone when linear
ClaimedWeights(perspectiveCorrect, px, py) ==
    LET w  == AreaWeights(px, py)
        ia == Val(call.a.invW)
        ib == Val(call.b.invW)
        ic == Val(call.c.invW)
    IN  IF perspectiveCorrect
        THEN [ka |-> w.wa * ia.n * ib.d * ic.d, kb |-> w.wb * ib.n * ia.d * ic.d,
              kc |-> w.wc * ic.n * ia.d * ib.d, den |-> InterpolatedInvW(px, py)]
        ELSE [ka |-> w.wa, kb |-> w.wb, kc |-> w.wc, den |-> w.d]

\* sum of weight x attribute divided by the sum of the weights
Weighted(k, xa, xb, xc) == Quot(k.ka * xa + k.kb * xb + k.kc * xc, k.den)

WeightedUV(k, ua, ub, uc) ==
    Quot(k.ka * ua.n * ub.d * uc.d + k.kb * ub.n * ua.d * uc.d + k.kc * uc.n * ua.d * ub.d,
         k.den * ua.d * ub.d * uc.d)

\* the colour the call writes at a pixel if it interpolates with weights k
ClaimedColour(k) ==
    LET r == Weighted(k, call.a.r, call.b.r, call.c.r)
        g == Weighted(k, call.a.g, call.b.g, call.c.g)
        b == Weighted(k, call.a.b, call.b.b, call.c.b)
    IN  IF call.op = "rasterizeTriangleGouraud"
        THEN <<RoundClamp255(r), RoundClamp255(g), RoundClamp255(b)>>
        ELSE LET t == sampleTexture(call.texture,
                          WeightedUV(k, Val(call.a.u), Val(call.b.u), Val(call.c.u)),
                          WeightedUV(k, Val(call.a.v), Val(call.b.v), Val(call.c.v)))
             IN  <<RoundClamp255(Ratio(t[1] * r.n, 255 * r.d)),
                   RoundClamp255(Ratio(t[2] * g.n, 255 * g.d)),
                   RoundClamp255(Ratio(t[3] * b.n, 255 * b.d))>>

AllPositiveInvW ==
    /\ AllCarryInvW
    /\ Val(call.a.invW).n > 0 /\ Val(call.b.invW).n > 0 /\ Val(call.c.invW).n > 0

----------------------------------------------------------------------------
(* C14 *)

SameColour ==
    /\ call.a.r = call.b.r /\ call.b.r = call.c.r
    /\ call.a.g = call.b.g /\ call.b.g = call.c.g
    /\ call.a.b = call.b.b /\ call.b.b = call.c.b

\* C14: when the three vertices have the same colour, every pixel written by
\* rasterizeTriangleGouraud has exactly that colour, whether the vertices
\* carry equal invW, different positive invW or no invW.
C14_UniformColour ==
    (call.op = "rasterizeTriangleGouraud" /\ ret.done /\ SameColour) =>
        \A s \in Stores : PixelAt(s[1], s[2]) = <<call.a.r, call.a.g, call.a.b>>

\* three different positive invW and at least two written pixels
C14_Witness ==
    /\ call.op = "rasterizeTriangleGouraud" /\ ret.done /\ SameColour
    /\ AllPositiveInvW
    /\ call.a.invW # call.b.invW /\ call.b.invW # call.c.invW
    /\ Cardinality(Stores) >= 2
    /\ \A s \in Stores : PixelAt(s[1], s[2]) = Amber

----------------------------------------------------------------------------
(* C15 *)

CarrySpecular ==
    /\ ~IsNull(call.a.sr) /\ ~IsNull(call.a.sg) /\ ~IsNull(call.a.sb)
    /\ ~IsNull(call.b.sr) /\ ~IsNull(call.b.sg) /\ ~IsNull(call.b.sb)
    /\ ~IsNull(call.c.sr) /\ ~IsNull(call.c.sg) /\ ~IsNull(call.c.sb)

\* texel x diffuse / 255 + specular, rounded and clamped to 0..255
Composite(texel, diffuse, specular) ==
    RoundClamp255(Ratio(texel * diffuse.n * specular.d + 255 * diffuse.d * specular.n,
                        255 * diffuse.d * specular.d))

\* the colour claimed for a written pixel of the textured call
TexturePlusSpecular(px, py) ==
    LET k == ClaimedWeights(AllPositiveInvW, px, py)
        t == sampleTexture(call.texture,
                 WeightedUV(k, Val(call.a.u), Val(call.b.u), Val(call.c.u)),
                 WeightedUV(k, Val(call.a.v), Val(call.b.v), Val(call.c.v)))
    IN  <<Composite(t[1], Weighted(k, call.a.r, call.b.r, call.c.r),
                    Weighted(k, Val(call.a.sr), Val(call.b.sr), Val(call.c.sr))),
          Composite(t[2], Weighted(k, call.a.g, call.b.g, call.c.g),
                    Weighted(k, Val(call.a.sg), Val(call.b.sg), Val(call.c.sg))),
          Composite(t[3], Weighted(k, call.a.b, call.b.b, call.c.b),
                    Weighted(k, Val(call.a.sb), Val(call.b.sb), Val(call.c.sb)))>>

\* C15: every pixel written by rasterizeTriangleGouraudTextured has, per
\* channel, the value clamp(texel x interpolated diffuse / 255 + interpolated
\* specular, 0, 255): the specular sr, sg, sb of the vertices is added on top
\* of texture x diffuse.
C15_TexturePlusSpecular ==
    (call.op = "rasterizeTriangleGouraudTextured" /\ ret.done /\ CarrySpecular) =>
        \A s \in Stores : PixelAt(s[1], s[2]) = TexturePlusSpecular(s[1], s[2])

----------------------------------------------------------------------------
(* C16 *)

\* the texel of the texture that holds the point (u, v) of the unit square
\* after u and v are reduced to their fractional parts: column floor(frac(u) * w),
\* row floor(frac(v) * h)
TexelOfPoint(texture, u, v) ==
    LET fu == Ratio(u.n - u.d * FloorRatio(u), u.d)
        fv == Ratio(v.n - v.d * FloorRatio(v), v.d)
        x  == CHOOSE c \in 0..(texture.width - 1) :
                  c * fu.d <= fu.n * texture.width /\ fu.n * texture.width < (c + 1) * fu.d
        y  == CHOOSE c \in 0..(texture.height - 1) :
                  c * fv.d <= fv.n * texture.height /\ fv.n * texture.height < (c + 1) * fv.d
        i  == (y * texture.width + x) * 4
    IN  <<At(texture.data, i), At(texture.data, i + 1), At(texture.data, i + 2)>>

----------------------------------------------------------------------------
(* C17 *)

TheMesh == At(call.scene.objects, 0).mesh

ThePolygon == At(TheMesh.polygons, 0)

\* uvIndices of the length of vertexIndices and a mesh with a UV table
UsableUVs ==
    /\ Len(TheMesh.uvs) > 0
    /\ ~IsNull(ThePolygon.uvIndices)
    /\ Len(Val(ThePolygon.uvIndices)) = Len(ThePolygon.vertexIndices)

\* the scene of the call with a polygon that declares no textureUrl
WithoutTextureUrl ==
    [call.scene EXCEPT !.objects[1].mesh.polygons[1].textureUrl = Null]

\* the framebuffer after the scene is rendered with a polygon without textureUrl
RenderedUntextured ==
    rasterizeBatches(Framebuffer(call.viewport.width, call.viewport.height),
        ProjectedScene(WithoutTextureUrl, call.viewport, call.options).batches, 0)

\* C17: a polygon that declares a textureUrl but has no usable UVs is rendered
\* untextured: every pixel is what the untextured Gouraud path draws for the
\* polygon, whether or not the textureUrl has an entry in the texture map.
C17_NoUVsRenderedUntextured ==
    (loop.pc = "drawn" /\ ~IsNull(ThePolygon.textureUrl) /\ ~UsableUVs) =>
        fb = RenderedUntextured

----------------------------------------------------------------------------
(* C18 *)

\* no texture map, or a texture map without an entry for the textureUrl
TextureMissing ==
    \/ IsNull(call.options.textureMap)
    \/ Val(ThePolygon.textureUrl) \notin DOMAIN Val(call.options.textureMap)

\* C18: a polygon whose textureUrl has no entry in the texture map, or that is
\* rendered without a texture map, has a batch without texture, and the frame
\* drawn is the frame of its lighting alone: what the untextured Gouraud
\* rasterizer draws from the sum of diffuse and specular of its vertices.
C18_MissingTextureLightingOnly ==
    (~IsNull(ThePolygon.textureUrl) /\ TextureMissing) =>
        /\ ret.done =>
                \A i \in 1..Len(ret.val.batches) : IsNull(ret.val.batches[i].texture)
        /\ loop.pc = "drawn" => fb = RenderedUntextured

----------------------------------------------------------------------------
(* C19 *)

InUnitRange(q) == q.d > 0 /\ 0 <= q.n /\ q.n <= q.d

ColourInUnitRange(c) == InUnitRange(c.r) /\ InUnitRange(c.g) /\ InUnitRange(c.b)

\* what computeLightingDiffuseAndSpecular returns for the arguments of the call
Components ==
    computeLightingDiffuseAndSpecular(call.vertexPos, call.normal, call.viewDir,
        call.material, call.lights, call.ambientColor)

\* C19: for all inputs, every channel of the diffuse and of the specular colour
\* that computeLightingDiffuseAndSpecular returns lies in [0,1], and
\* computeLighting returns the sum of the two, clamped to [0,1] per channel.
C19_ChannelsInUnitRange ==
    /\ (call.op = "computeLightingDiffuseAndSpecular" /\ ret.done) =>
            /\ ColourInUnitRange(ret.val.diffuse)
            /\ ColourInUnitRange(ret.val.specular)
    /\ (call.op = "computeLighting" /\ ret.done) =>
            /\ ColourInUnitRange(ret.val)
            /\ ret.val = clampColor(AddColor(Components.diffuse, Components.specular))

----------------------------------------------------------------------------
(* C20 *)

\* the lighting of vertex k of the polygon: the camera of the scene is at the
\* origin and the object is not moved, so camera space is the space of the mesh
Lit(k) ==
    LET pos == At(TheMesh.vertices, At(ThePolygon.vertexIndices, k))
    IN  computeLightingDiffuseAndSpecular(pos, Vec3(0, 0, 1), negate(pos),
            [diffuse   |-> hexToColorRGB(ThePolygon.color),
             specular  |-> hexToColorRGB(Val(TheMesh.material).specular),
             shininess |-> Val(TheMesh.material).shininess],
            call.scene.lights, call.scene.ambientColor)

\* a textureUrl, uvIndices of the length of vertexIndices and a UV table
StoredSeparately ==
    /\ ~IsNull(ThePolygon.textureUrl)
    /\ ~IsNull(ThePolygon.uvIndices)
    /\ Len(Val(ThePolygon.uvIndices)) = Len(ThePolygon.vertexIndices)
    /\ Len(TheMesh.uvs) > 0

\* C20: every vertex of an emitted batch carries sr, sg, sb and the diffuse
\* term alone in r, g, b exactly when its polygon has a textureUrl and
\* uvIndices of the length of its vertexIndices with a non-empty UV table of
\* the mesh; every other vertex carries no sr, sg, sb and the sum
\* diffuse + specular, clamped to [0,255], in r, g, b.
C20_SeparateSpecularIffTexturedWithUVs ==
    ret.done =>
        \A i \in 1..Len(ret.val.batches) :
            \A k \in 0..(Len(ret.val.batches[i].vertices) - 1) :
                LET vertex == At(ret.val.batches[i].vertices, k)
                    lit    == Lit(k)
                IN  IF StoredSeparately
                    THEN /\ vertex.sr = Some(ToByte(lit.specular.r))
                         /\ vertex.sg = Some(ToByte(lit.specular.g))
                         /\ vertex.sb = Some(ToByte(lit.specular.b))
                         /\ vertex.r = ToByte(lit.diffuse.r)
                         /\ vertex.g = ToByte(lit.diffuse.g)
                         /\ vertex.b = ToByte(lit.diffuse.b)
                    ELSE /\ IsNull(vertex.sr) /\ IsNull(vertex.sg) /\ IsNull(vertex.sb)
                         /\ vertex.r = ToByte(RatioAdd(lit.diffuse.r, lit.specular.r))
                         /\ vertex.g = ToByte(RatioAdd(lit.diffuse.g, lit.specular.g))
                         /\ vertex.b = ToByte(RatioAdd(lit.diffuse.b, lit.specular.b))

\* a batch whose vertices carry a specular term that is not zero, separately
C20_Witness ==
    /\ ret.done
    /\ StoredSeparately
    /\ Len(ret.val.batches) = 1
    /\ \E k \in 0..2 :
            LET vertex == At(ret.val.batches[1].vertices, k)
            IN  ~IsNull(vertex.sr) /\ Val(vertex.sr) > 0 /\ vertex.r > 0

----------------------------------------------------------------------------
(* C21 *)

\* the positions of the vertices of the mesh in camera space
CameraSpaceVertices == transformVerticesToCameraSpace(TheMesh, ViewModel(call.scene, 0))

CameraSpaceNormals == transformNormalsToCameraSpace(TheMesh, ViewModel(call.scene, 0))

\* the polygon that a batch was built from
PolygonOf(batch) == At(TheMesh.polygons, batch.polygon[2])

FaceNormal(polygon) == polygonNormal(polygon.vertexIndices, CameraSpaceVertices)

\* the sum of the positions of the vertices of the polygon: the centroid times
\* the number of vertices, which has the direction of the centroid
RECURSIVE CentroidSum(_, _)
CentroidSum(polygon, k) ==
    IF k >= Len(polygon.vertexIndices) THEN Vec3(0, 0, 0)
    ELSE add(At(CameraSpaceVertices, At(polygon.vertexIndices, k)),
             CentroidSum(polygon, k + 1))

\* a mesh without vertex normals is lit with the normals of its faces
FaceNormalMode(polygon) == Len(TheMesh.vertexNormals) = 0 /\ ~IsNull(FaceNormal(polygon))

VertexNormalMode == Len(TheMesh.vertexNormals) = Len(TheMesh.vertices)

\* the sum diffuse + specular of the lighting of vertex v of the mesh in a
\* polygon, with the normal and the view direction given, as the bytes of a
\* vertex
LitWith(polygon, v, normal, viewDir) ==
    LET lit == computeLightingDiffuseAndSpecular(At(CameraSpaceVertices, v),
                    normal, viewDir, polygonMaterial(TheMesh, polygon),
                    transformLightsToCameraSpace(call.scene.lights,
                                                 getViewMatrix(call.scene.camera)),
                    call.scene.ambientColor)
    IN  <<ToByte(RatioAdd(lit.diffuse.r, lit.specular.r)),
          ToByte(RatioAdd(lit.diffuse.g, lit.specular.g)),
          ToByte(RatioAdd(lit.diffuse.b, lit.specular.b))>>

VertexColour(vertex) == <<vertex.r, vertex.g, vertex.b>>

\* C21: in face-normal mode every vertex of a polygon is lit with the same
\* normal, the face normal in camera space, and with the same view direction,
\* taken from the centroid of the polygon; in vertex-normal mode every vertex
\* is lit with its own normal in camera space and with the view direction
\* -vertexPosition.
C21_LightingInputsByNormalMode ==
    (call.op = "projectSceneToFilledPolygons" /\ ret.done) =>
        \A i \in 1..Len(ret.val.batches) :
            \A k \in 0..(Len(ret.val.batches[i].vertices) - 1) :
                LET vertex  == At(ret.val.batches[i].vertices, k)
                    polygon == PolygonOf(ret.val.batches[i])
                    v       == At(polygon.vertexIndices, k)
                IN  /\ FaceNormalMode(polygon) =>
                        VertexColour(vertex)
                            = LitWith(polygon, v, Val(FaceNormal(polygon)),
                                      negate(CentroidSum(polygon, 0)))
                    /\ VertexNormalMode =>
                        VertexColour(vertex)
                            = LitWith(polygon, v, At(CameraSpaceNormals, v),
                                      negate(At(CameraSpaceVertices, v)))

\* what holds of the program: the face normal in face-normal mode, and the
\* view direction -vertexPosition in both modes
LightingInputsOfTheCode ==
    (call.op = "projectSceneToFilledPolygons" /\ ret.done) =>
        \A i \in 1..Len(ret.val.batches) :
            \A k \in 0..(Len(ret.val.batches[i].vertices) - 1) :
                LET vertex  == At(ret.val.batches[i].vertices, k)
                    polygon == PolygonOf(ret.val.batches[i])
                    v       == At(polygon.vertexIndices, k)
                IN  /\ FaceNormalMode(polygon) =>
                        VertexColour(vertex)
                            = LitWith(polygon, v, Val(FaceNormal(polygon)),
                                      negate(At(CameraSpaceVertices, v)))
                    /\ VertexNormalMode =>
                        VertexColour(vertex)
                            = LitWith(polygon, v, At(CameraSpaceNormals, v),
                                      negate(At(CameraSpaceVertices, v)))

----------------------------------------------------------------------------
(* C22 *)

\* the list without the element at the least position that holds object
WithoutFirst(list, object) ==
    IF \A k \in 1..Len(list) : list[k] # object THEN list
    ELSE LET first == CHOOSE k \in 1..Len(list) :
                        /\ list[k] = object
                        /\ \A j \in 1..(k - 1) : list[j] # object
         IN  [j \in 1..(Len(list) - 1) |-> IF j < first THEN list[j] ELSE list[j + 1]]

Present(list, object) == \E k \in 1..Len(list) : list[k] = object

\* C22: every call of add, remove and clear leaves scene.objects as the list
\* that appending the object, deleting its first occurrence and emptying the
\* list give; remove returns true exactly when the object was present and
\* leaves the list unchanged when it returns false.  Starting from the empty
\* list the objects are therefore always in the order of their insertion.
C22_ObjectsAreTheInsertionOrderedList ==
    [][LET before == SceneOf(app).objects
           after  == SceneOf(app').objects
       IN  /\ call'.op = "add" => after = Append(before, call'.object)
           /\ call'.op = "remove" =>
                /\ after = WithoutFirst(before, call'.object)
                /\ ret'.val = Present(before, call'.object)
                /\ ~ret'.val => after = before
           /\ call'.op = "clear" => after = <<>>]_vars

\* an object added twice was removed once: its second occurrence is still
\* in the list, behind an object added in between
C22_Witness ==
    /\ call.op = "remove" /\ ret.done /\ ret.val
    /\ Len(SceneOf(app).objects) = 2
    /\ SceneOf(app).objects[2] = call.object
    /\ SceneOf(app).objects[1] # call.object

----------------------------------------------------------------------------
(* C23 *)

\* the options of the call with debugShowDirection switched
OtherDebugOptions == [call.options EXCEPT !.debugShowDirection = ~@]

\* C23: projectSceneToFilledPolygons returns the same list of batches with
\* debugShowDirection on and off; of the two results only debugNormalSegments
\* differs, which is empty with the option off.
C23_BatchesIndependentOfDebug ==
    (call.op = "projectSceneToFilledPolygons" /\ ret.done) =>
        /\ ret.val.batches
                = ProjectedScene(call.scene, call.viewport, OtherDebugOptions).batches
        /\ DOMAIN ret.val = {"batches", "debugNormalSegments"}
        /\ ~call.options.debugShowDirection => ret.val.debugNormalSegments = <<>>

\* a call with the option on that returns two batches and the segments of
\* their two polygons
C23_Witness ==
    /\ call.op = "projectSceneToFilledPolygons" /\ ret.done
    /\ call.options.debugShowDirection
    /\ Len(ret.val.batches) = 2
    /\ Len(ret.val.debugNormalSegments) = 2
    /\ ret.val.debugNormalSegments[1] # ret.val.debugNormalSegments[2]

----------------------------------------------------------------------------
(* C24 *)

\* the batch that the next turn of the loop of rasterizeBatches draws
NextBatch == At(loop.batches, loop.next)

\* the first three vertices of a batch
FirstThree(batch) == [batch EXCEPT !.vertices = SubSeq(@, 1, 3)]

\* the one triangle of the vertices 0, 1 and 2 of a batch drawn over fb
OneTriangle(batch) ==
    IF IsNull(batch.texture)
    THEN rasterizeTriangleGouraud(fb, ScreenVertex(batch.vertices[1]),
             ScreenVertex(batch.vertices[2]), ScreenVertex(batch.vertices[3]))
    ELSE rasterizeTriangleGouraudTextured(fb, ScreenVertex(batch.vertices[1]),
             ScreenVertex(batch.vertices[2]), ScreenVertex(batch.vertices[3]),
             Val(batch.texture))

\* C24: rasterizeBatches draws a batch only if it has at least 3 vertices, and
\* then exactly the one triangle of its vertices 0, 1 and 2: a batch of fewer
\* than 3 vertices writes no pixel, and the vertices from index 3 on have no
\* influence on the framebuffer.
C24_OneTriangleFromFirstThree ==
    [][(loop.pc = "rasterize" /\ loop.next < Len(loop.batches)) =>
            IF Len(NextBatch.vertices) < 3 THEN fb' = fb
            ELSE fb' = OneTriangle(FirstThree(NextBatch))]_vars

\* a batch of four vertices was drawn and left pixels that are not black,
\* and the batch before it had two vertices
C24_Witness ==
    /\ loop.pc = "rasterize"
    /\ loop.next >= 2
    /\ Len(At(loop.batches, loop.next - 1).vertices) = 4
    /\ Len(At(loop.batches, loop.next - 2).vertices) = 2
    /\ \E x \in 0..(fb.width - 1), y \in 0..(fb.height - 1) :
            PixelAt(x, y) # <<0, 0, 0>>

----------------------------------------------------------------------------
(* C25 *)

\* Mat4.inverse returns null for view * model of the object
SingularViewModel == IsNull(inverse(ViewModel(call.scene, 0)))

\* what projectSceneToFilledPolygons returns for the call, before and after
\* it is made
Completed == ProjectedScene(call.scene, call.viewport, call.options)

\* C25: when view * model is singular, transformNormalsToCameraSpace returns
\* the vertex normals of the mesh untransformed, one for each normal and in
\* their order, and projectSceneToFilledPolygons completes: it has a value,
\* a list of batches and a list of debug segments, which the call returns.
C25_SingularKeepsNormals ==
    SingularViewModel =>
        /\ (call.op = "transformNormalsToCameraSpace" /\ ret.done) =>
                /\ Len(ret.val) = Len(TheMesh.vertexNormals)
                /\ \A i \in 1..Len(ret.val) : ret.val[i] = TheMesh.vertexNormals[i]
        /\ call.op = "projectSceneToFilledPolygons" =>
                /\ Len(Completed.batches) \in 0..Len(TheMesh.polygons)
                /\ Len(Completed.debugNormalSegments) \in 0..Len(TheMesh.polygons)
                /\ ret.done => ret.val = Completed

\* an object flattened to a line along z, whose mesh has a different normal at
\* every vertex: the normals are returned as they are
C25_Witness ==
    /\ call.op = "transformNormalsToCameraSpace" /\ ret.done
    /\ At(call.scene.objects, 0).scale = Vec3(0, 0, 1)
    /\ SingularViewModel
    /\ ret.val = <<Vec3(0, 0, 1), Vec3(0, 1, 0), Vec3(1, 0, 0)>>

\* the same object drawn: its polygons are emitted, lit with these normals
C25_Drawn ==
    /\ call.op = "projectSceneToFilledPolygons" /\ ret.done
    /\ SingularViewModel
    /\ Len(TheMesh.vertexNormals) = 3
    /\ Len(ret.val.batches) = 2

----------------------------------------------------------------------------
(* C26 *)

\* the position in clip space of vertex v of the mesh of an object, times the
\* scale of the projection matrix
ClipOf(object, v) ==
    transformVec4(multiply(ViewProj(call.scene.camera, call.viewport),
                           getModelMatrix(object)),
                  Vec4(At(object.mesh.vertices, v).x, At(object.mesh.vertices, v).y,
                       At(object.mesh.vertices, v).z, 1))

\* invW is defined, positive and 1 / w for the clip-space w = clip.w / scale,
\* which is positive, and the NDC z = clip.z / clip.w lies in [-1, 1]
PositiveInvW(vertex, clip, scale) ==
    /\ ~IsNull(vertex.invW)
    /\ Val(vertex.invW).n > 0 /\ Val(vertex.invW).d > 0
    /\ clip.w > 0
    /\ Val(vertex.invW).n * clip.w = Val(vertex.invW).d * scale
    /\ -clip.w <= clip.z /\ clip.z <= clip.w

\* C26: every vertex of every batch that projectSceneToFilledPolygons returns
\* carries an invW that is defined and strictly positive, the inverse of a
\* clip-space w > 0, and comes from a point whose NDC z lies in [-1, 1].
C26_PositiveInvW ==
    ProjectReturned =>
        \A j \in 1..Len(Batches) :
            \A m \in 1..Len(Batches[j].vertices) :
                PositiveInvW(Batches[j].vertices[m],
                             ClipOf(BatchObject(Batches[j]), BatchIndices(Batches[j])[m]),
                             ViewProjScale(call.scene.camera, call.viewport))

\* a vertex of the mesh of object o that is behind the camera or outside the
\* depth range
BehindVertex(o) ==
    \E v \in 0..(Len(At(call.scene.objects, o).mesh.vertices) - 1) :
        LET clip == ClipOf(At(call.scene.objects, o), v)
        IN  clip.w < 0 \/ (clip.w > 0 /\ (clip.z < -clip.w \/ clip.z > clip.w))

\* batches were emitted for an object that has a vertex behind the camera or
\* outside the depth range, and a vertex at clip-space w = 0
C26_Witness ==
    /\ ProjectReturned
    /\ \E j \in 1..Len(Batches) :
            /\ BehindVertex(Batches[j].polygon[1])
            /\ \E v \in 0..(Len(BatchObject(Batches[j]).mesh.vertices) - 1) :
                    ClipOf(BatchObject(Batches[j]), v).w = 0

----------------------------------------------------------------------------
(* C27 *)

\* the batches in the order of their emission: what the call returns without
\* the depth sort
Emitted ==
    ProjectedScene(call.scene, call.viewport,
                   [call.options EXCEPT !.applyPaintersAlgorithm = FALSE]).batches

\* polygon p comes before polygon q: an earlier object of the scene, or an
\* earlier polygon of the same mesh
EmittedBefore(p, q) == p[1] < q[1] \/ (p[1] = q[1] /\ p[2] < q[2])

\* every batch of the list is the emitted batch of its batchIndex, and the
\* two lists have the same length
PermutationOf(batches, emitted) ==
    /\ Len(batches) = Len(emitted)
    /\ \A j \in 1..Len(batches) : batches[j] = At(emitted, batches[j].batchIndex)

\* C27: the batchIndex values of the result are exactly 0..n-1 without
\* repeats, and batchIndex k belongs to the k-th batch emitted, objects in the
\* order of the scene and polygons in the order of the mesh; without the depth
\* sort the list is in batchIndex order, and with it the list is a permutation
\* of the emitted batches, none dropped, repeated or altered.
C27_BatchIndexIsEmissionOrder ==
    ProjectReturned =>
        /\ {Batches[j].batchIndex : j \in 1..Len(Batches)} = 0..(Len(Batches) - 1)
        /\ \A i, j \in 1..Len(Batches) :
                /\ Batches[i].batchIndex = Batches[j].batchIndex => i = j
                /\ Batches[i].batchIndex < Batches[j].batchIndex
                        <=> EmittedBefore(Batches[i].polygon, Batches[j].polygon)
        /\ ~call.options.applyPaintersAlgorithm =>
                \A j \in 1..Len(Batches) : Batches[j].batchIndex = j - 1
        /\ PermutationOf(Batches, Emitted)

\* the depth sort moved batches of two objects: the first of the list is not
\* the first emitted, and a polygon before it in its mesh was not emitted
C27_Witness ==
    /\ ProjectReturned
    /\ call.options.applyPaintersAlgorithm
    /\ Len(Batches) >= 3
    /\ Batches[1].batchIndex > 0
    /\ \E i, j \in 1..Len(Batches) : Batches[i].polygon[1] # Batches[j].polygon[1]
    /\ \E j \in 1..Len(Batches) : Batches[j].batchIndex < Batches[j].polygon[2]

----------------------------------------------------------------------------
(* C28 *)

\* the vertices of the mesh of an object, transformed by its model matrix
WorldVertices(object) ==
    transformVerticesToCameraSpace(object.mesh, getModelMatrix(object))

\* the vertices of the mesh of object number o in camera space
ViewVertices(o) ==
    transformVerticesToCameraSpace(At(call.scene.objects, o).mesh, ViewModel(call.scene, o))

\* a point of camera space inside the view frustum: between the near and the
\* far plane and between the four side planes, whose slopes are
\* aspect * tan(fovY / 2) and tan(fovY / 2)
InsideFrustum(p, camera, viewport) ==
    /\ -camera.far <= p.z /\ p.z <= -camera.near
    /\ Abs(p.x) * viewport.height * camera.tanHalfFovY.d
            <= viewport.width * camera.tanHalfFovY.n * (-p.z)
    /\ Abs(p.y) * camera.tanHalfFovY.d <= camera.tanHalfFovY.n * (-p.z)

\* the sphere at the position of the object with the radius worldRadius
\* contains the point p
InSphere(object, p) ==
    /\ worldRadius(object) >= 0
    /\ lengthSq(sub(p, object.position)) <= worldRadius(object) * worldRadius(object)

\* C28: the culling of objects is conservative for every transform.  An
\* object that has a vertex inside the view frustum is not culled, and the
\* sphere at object.position with the radius boundingRadius * max(scale.x,
\* scale.y, scale.z) contains every vertex transformed by the model matrix,
\* for all scales, negative ones included.
C28_CullingIsConservative ==
    ProjectReturned =>
        \A o \in 0..(Len(call.scene.objects) - 1) :
            /\ (\E v \in 1..Len(At(call.scene.objects, o).mesh.vertices) :
                    InsideFrustum(ViewVertices(o)[v], call.scene.camera,
                                  call.viewport))
                    => objectVisible(call.scene.camera, At(call.scene.objects, o),
                                     getViewMatrix(call.scene.camera), call.viewport)
            /\ \A v \in 1..Len(At(call.scene.objects, o).mesh.vertices) :
                    InSphere(At(call.scene.objects, o),
                             WorldVertices(At(call.scene.objects, o))[v])

\* what holds of the program: the same for the scales without a negative
\* factor
ConservativeForPositiveScales ==
    (ProjectReturned /\ At(call.scene.objects, 0).scale.x >= 0
        /\ At(call.scene.objects, 0).scale.y >= 0
        /\ At(call.scene.objects, 0).scale.z >= 0) =>
            C28_CullingIsConservative

----------------------------------------------------------------------------
(* C29 *)

\* rasterizeBatches has drawn the batches of the call over the cleared
\* framebuffer
Painted == call.op = "rasterizeBatches" /\ loop.pc = "drawn"

\* the triangle of a batch covers the centre of pixel (x, y): the batch has
\* three vertices or more and the triangle of the first three has an area
CoversPixel(batch, x, y) ==
    /\ Len(batch.vertices) >= 3
    /\ Orient(ScreenVertex(batch.vertices[1]), ScreenVertex(batch.vertices[2]),
              ScreenVertex(batch.vertices[3])) # 0
    /\ CentreInTriangle(ScreenVertex(batch.vertices[1]), ScreenVertex(batch.vertices[2]),
                        ScreenVertex(batch.vertices[3]), x, y)

\* the positions in the drawn list of the batches that cover pixel (x, y)
CoveringBatches(x, y) ==
    {i \in 0..(Len(loop.batches) - 1) : CoversPixel(At(loop.batches, i), x, y)}

\* the four bytes of pixel (x, y) of a framebuffer
BytesAt(framebuffer, x, y) ==
    [j \in 1..4 |-> At(framebuffer.data, (y * framebuffer.width + x) * 4 + j - 1)]

\* what the batch alone leaves at pixel (x, y) of the cleared framebuffer
WrittenBy(batch, x, y) ==
    BytesAt(rasterizeBatch(clear(fb, call.clearColor), batch), x, y)

ClearedPixel == parseColor(call.clearColor) \o <<255>>

\* pixel (x, y) holds the colour of the last batch of the list that covers
\* it, or the clear colour when no batch covers it
LastCoveringWins(x, y, covering) ==
    IF covering = {} THEN BytesAt(fb, x, y) = ClearedPixel
    ELSE BytesAt(fb, x, y) = WrittenBy(At(loop.batches, SetMax(covering)), x, y)

\* the batch that determines pixel (x, y) has the greatest depth key among
\* those that cover it
GreatestDepthWins(covering) ==
    \A i \in covering :
        At(loop.batches, i).depth <= At(loop.batches, SetMax(covering)).depth

WellSeparated ==
    \A i, j \in 1..Len(loop.batches) :
        \/ loop.batches[i].depth = loop.batches[j].depth
        \/ Abs(loop.batches[i].depth - loop.batches[j].depth) >= DepthEps

----------------------------------------------------------------------------
(* C30 *)

\* updateCamera has just returned
UpdateReturned == call.op = "updateCamera" /\ ret.done

\* W or S, and A or D, counted with their signs
ForwardCount(keys) ==
    (IF "w" \in keys \/ "W" \in keys THEN 1 ELSE 0)
        - (IF "s" \in keys \/ "S" \in keys THEN 1 ELSE 0)

RightCount(keys) ==
    (IF "d" \in keys \/ "D" \in keys THEN 1 ELSE 0)
        - (IF "a" \in keys \/ "A" \in keys THEN 1 ELSE 0)

\* the sum of the pressed movement directions is not zero: forward and right
\* are perpendicular, so their multiples cancel only when both counts are 0
DirectionsSumNonZero(keys) == ForwardCount(keys) # 0 \/ RightCount(keys) # 0

\* C30: for any sequence of keydown and keyup events and calls of
\* updateCamera with deltaTime >= 0, the returned pitch lies in
\* [-89, 89] degrees, the orientation of the camera is the quaternion of the
\* returned yaw and pitch with zero roll, and the position of the camera
\* changes in a call only if the sum of the pressed movement directions is
\* not zero: W with S and A with D cancel.
C30_PitchClampedOrientationAndMovement ==
    UpdateReturned =>
        /\ -89 <= ret.val.pitch /\ ret.val.pitch <= 89
        /\ app.camera.orientation = fromEuler(ret.val.yaw, ret.val.pitch, 0)
        /\ app.camera.position # call.position => DirectionsSumNonZero(app.keys)

\* a call with ArrowDown down has cut the pitch to -89 degrees and moved the
\* camera, and the next call, with W and S down and time passing, has
\* returned the pitch as it was and left the camera where it was
C30_Witness ==
    /\ UpdateReturned
    /\ app.updates = 2
    /\ call.deltaTime > 0
    /\ app.keys = {"w", "S"}
    /\ call.pitch = -89
    /\ ret.val.pitch = -89
    /\ call.position # Vec3(0, 4000, 10000)
    /\ app.camera.position = call.position

====
